---- MODULE Spec2Model ----
(***************************************************************************)
(* Trace-to-operation-log builder of bus-mapping/src/evm/opcodes.rs:       *)
(* gen_begin_tx_ops, gen_associated_ops (dispatch and error               *)
(* classification), gen_end_tx_ops and dummy_gen_selfdestruct_ops, run by  *)
(* the transaction lifecycle controller over the transactions of a block.  *)
(* The utilities of prover/src/utils.rs, re_randomize_srs and              *)
(* init_env_and_log, have a specification of their own each (SrsSpec,     *)
(* LogSpec) over the variables `srs` and `env`.                            *)
(*                                                                         *)
(* The builder context (CircuitInputStateRef) is the record `state`; every *)
(* operator below takes the context `s` and returns the context after the  *)
(* call.  A context whose `result` is not "Ok" is passed through unchanged *)
(* (the `?` of the source; a panic unwinds the same way).                  *)
(***************************************************************************)
EXTENDS Integers, Sequences, FiniteSets, TLC

VARIABLES
    state,      \* the builder context: log, counter, ledger, frames, ...
    blk,        \* block input: header, build features, number of txs
    tx,         \* input of the transaction being built (tx, tx_ctx, trace)
    pc,         \* position of the lifecycle controller
    ghost,      \* history: ledger snapshots and dispatch call order
    srs,        \* prover/src/utils.rs: a run of re_randomize_srs
    env         \* prover/src/utils.rs: the process init_env_and_log runs in

vars == <<state, blk, tx, pc, ghost, srs, env>>

----------------------------------------------------------------------------
(* Bounds of the model *)

MaxTxs == 2         \* transactions per block in the block scenario
MaxSteps == 3       \* trace steps per transaction in the trace scenario,
                    \* one more in the scenario of nested calls
MaxDepth == 2       \* frames on the call stack
MaxWord == 2        \* largest gas price drawn
MaxRefund == 3      \* largest refund an SSTORE step adds
MaxGas == 10        \* gas limit of the transactions drawn
InitialBalance == 100
MaxK == 3           \* largest degree k of the parameters (n = 2^k points)
MaxThreads == 3     \* largest number of worker threads of the pool
MaxSeed == 2        \* seeds drawn for the re-randomization
FieldSize == 7      \* size of the scalar field the model computes in
MaxCalls == 2       \* calls of init_env_and_log in one process
MaxClock == 1       \* seconds the clock may advance while they run

(* Program constants *)

NumPrecompiles == 9
MAX_REFUND_QUOTIENT_OF_GAS_USED == 5
empty_code_hash == 1

ZeroHash == 0
ContractCodeHash == empty_code_hash + 1

(* Addresses: 1..9 precompiles, two externally owned accounts, a contract, *)
(* the fee recipient, the address a creation transaction deploys to, and   *)
(* an address with no ledger entry.                                        *)
AddrA == NumPrecompiles + 1
AddrB == NumPrecompiles + 2
AddrContract == NumPrecompiles + 3
AddrCoinbase == NumPrecompiles + 4
AddrNew == NumPrecompiles + 5
AddrAbsent == NumPrecompiles + 6
Addrs == 1..(NumPrecompiles + 6)

B2N(b) == IF b THEN 1 ELSE 0

Min(a, b) == IF a <= b THEN a ELSE b

----------------------------------------------------------------------------
(* State ledger (StateDB) *)

AccountZero ==
    [found |-> FALSE, nonce |-> 0, balance |-> 0,
     code_hash |-> empty_code_hash, storage |-> 0]

is_empty(acc) ==
    acc.nonce = 0 /\ acc.balance = 0 /\ acc.code_hash = empty_code_hash

code_hash_read(acc) == IF is_empty(acc) THEN ZeroHash ELSE acc.code_hash

is_precompiled(addr) == addr \in 1..NumPrecompiles

get_account(sdb, addr) == sdb.state[addr]

get_nonce(sdb, addr) == sdb.state[addr].nonce

\* get_account_mut: the entry is created when it is missing.
get_account_mut(sdb, addr) ==
    [sdb EXCEPT !.state[addr].found = TRUE]

check_account_in_access_list(sdb, addr) == addr \in sdb.access_list

\* add_account_to_access_list returns whether the address was cold.
add_account_to_access_list(sdb, addr) ==
    [sdb EXCEPT !.access_list = @ \cup {addr}]

\* destruct_account: the entry is replaced by the zero account.
destruct_account(sdb, addr) ==
    [sdb EXCEPT !.state[addr] = [AccountZero EXCEPT !.found = TRUE]]

\* An account write as the ledger performs it.
SetAccountField(sdb, addr, field, value) ==
    LET m == get_account_mut(sdb, addr)
    IN  CASE field = "Nonce" -> [m EXCEPT !.state[addr].nonce = value]
          [] field = "Balance" -> [m EXCEPT !.state[addr].balance = value]
          [] field = "CodeHash" -> [m EXCEPT !.state[addr].code_hash = value]
          [] OTHER -> m

\* check_update_sdb_account: an account READ or WRITE reaches the entry
\* through get_account_mut; a WRITE stores the value.
check_update_sdb_account(sdb, rw, op) ==
    IF rw = "WRITE"
    THEN SetAccountField(sdb, op.addr, op.field, op.value)
    ELSE get_account_mut(sdb, op.addr)

\* apply_op: the ledger effect of a reversible write (or of its reversal).
apply_op(sdb, op) ==
    CASE op.tag = "Account" -> SetAccountField(sdb, op.addr, op.field, op.value)
      [] op.tag = "TxAccessListAccount" ->
            IF op.prev = 0 /\ op.value = 1
            THEN [sdb EXCEPT !.access_list = @ \cup {op.addr}]
            ELSE IF op.prev = 1 /\ op.value = 0
            THEN [sdb EXCEPT !.access_list = @ \ {op.addr}]
            ELSE sdb
      [] op.tag = "TxRefund" -> [sdb EXCEPT !.refund = op.value]
      [] op.tag = "Storage" -> [sdb EXCEPT !.state[op.addr].storage = op.value]
      [] OTHER -> sdb

----------------------------------------------------------------------------
(* Operations and the Operation Log *)

Op(tag, id, addr, field, value, prev) ==
    [tag |-> tag, id |-> id, addr |-> addr, field |-> field,
     value |-> value, prev |-> prev]

AccountOp(addr, field, value, prev) == Op("Account", 0, addr, field, value, prev)
CallContextOp(call_id, field, value) == Op("CallContext", call_id, 0, field, value, 0)
TxAccessListAccountOp(tx_id, addr, is_warm, is_warm_prev) ==
    Op("TxAccessListAccount", tx_id, addr, "", B2N(is_warm), B2N(is_warm_prev))
TxRefundOp(tx_id, value, prev) == Op("TxRefund", tx_id, 0, "", value, prev)
TxReceiptOp(tx_id, field, value) == Op("TxReceipt", tx_id, 0, field, value, 0)
StorageOp(addr, slot, value, prev, tx_id) == Op("Storage", tx_id, addr, slot, value, prev)
StackOp(call_id, value) == Op("Stack", call_id, 0, "", value, 0)

\* An entry of the log: the operation stamped with its global counter, its
\* direction, whether it is registered as reversible, whether it is the
\* replay of a reversible write, and the ExecStep that produced it.
Entry(s, rw, op, reversible, reversal) ==
    [rwc |-> s.rwc, rw |-> rw, tag |-> op.tag, id |-> op.id, addr |-> op.addr,
     field |-> op.field, value |-> op.value, prev |-> op.prev,
     reversible |-> reversible, reversal |-> reversal,
     tx_id |-> s.exec_step.tx_id, kind |-> s.exec_step.kind,
     index |-> s.exec_step.index]

Ok(s) == s.result = "Ok"

Fail(s, result, addr) ==
    IF Ok(s) THEN [s EXCEPT !.result = result, !.err_addr = addr] ELSE s

\* rwc.inc_pre() and container.insert: the entry takes the current counter
\* and the counter advances by one.
insert_op(s, rw, op, reversible, reversal) ==
    [s EXCEPT !.container = Append(@, Entry(s, rw, op, reversible, reversal)),
              !.rwc = @ + 1]

push_op(s, rw, op) ==
    IF ~Ok(s) THEN s
    ELSE LET s1 == IF op.tag = "Account"
                   THEN [s EXCEPT !.sdb = check_update_sdb_account(@, rw, op)]
                   ELSE s
         IN  insert_op(s1, rw, op, FALSE, FALSE)

\* The frame on top of the call stack.
call(s) == s.calls[Len(s.calls)]

\* A reversible write of a frame that is not persistent goes into the
\* innermost reversion group.
register_reversible(s, op) ==
    IF s.calls = <<>> \/ s.reversion_groups = <<>> THEN s
    ELSE IF call(s).is_persistent THEN s
    ELSE [s EXCEPT !.reversion_groups[Len(s.reversion_groups)] = Append(@, op)]

\* push_op_reversible: applies the write to the ledger, appends it, and
\* registers it for undo.
push_op_reversible(s, op) ==
    IF ~Ok(s) THEN s
    ELSE register_reversible(
             insert_op([s EXCEPT !.sdb = apply_op(@, op)], "WRITE", op, TRUE, FALSE),
             op)

account_read(s, addr, field, value) ==
    push_op(s, "READ", AccountOp(addr, field, value, value))

account_write(s, addr, field, value, prev) ==
    push_op(s, "WRITE", AccountOp(addr, field, value, prev))

call_context_read(s, call_id, field, value) ==
    push_op(s, "READ", CallContextOp(call_id, field, value))

call_context_write(s, call_id, field, value) ==
    push_op(s, "WRITE", CallContextOp(call_id, field, value))

\* An access-list write is a reversible write: it is registered for undo
\* in the reversion window of the active frame.
tx_accesslist_account_write(s, tx_id, addr, is_warm, is_warm_prev) ==
    push_op_reversible(s, TxAccessListAccountOp(tx_id, addr, is_warm, is_warm_prev))

tx_receipt_read(s, tx_id, field, value) ==
    push_op(s, "READ", TxReceiptOp(tx_id, field, value))

tx_receipt_write(s, tx_id, field, value) ==
    push_op(s, "WRITE", TxReceiptOp(tx_id, field, value))

stack_read(s, value) == push_op(s, "READ", StackOp(call(s).call_id, value))

stack_write(s, value) == push_op(s, "WRITE", StackOp(call(s).call_id, value))

----------------------------------------------------------------------------
(* Ledger adapter: transfers, reversion and frame return *)

\* A ledger write, registered as reversible or not.
push_write(s, op, reversible) ==
    IF reversible THEN push_op_reversible(s, op) ELSE push_op(s, "WRITE", op)

\* The receiver is created when it must exist and does not.
transfer_create(s, receiver, receiver_exists, must_create, value, reversible) ==
    IF ~Ok(s) THEN s
    ELSE IF (~receiver_exists /\ value # 0) \/ must_create
    THEN push_write(s, AccountOp(receiver, "CodeHash", empty_code_hash, ZeroHash),
                    reversible)
    ELSE s

\* The receiver is credited; nothing is written for a zero value.
transfer_credit(s, receiver, value, reversible) ==
    IF ~Ok(s) \/ value = 0 THEN s
    ELSE push_write(s,
             AccountOp(receiver, "Balance",
                       get_account(s.sdb, receiver).balance + value,
                       get_account(s.sdb, receiver).balance),
             reversible)

transfer_to(s, receiver, receiver_exists, must_create, value, reversible) ==
    transfer_credit(
        transfer_create(s, receiver, receiver_exists, must_create, value, reversible),
        receiver, value, reversible)

\* The amount leaves the sender by a reversible write.
transfer_debit(s, sender, value) ==
    push_op_reversible(s,
        AccountOp(sender, "Balance", get_account(s.sdb, sender).balance - value,
                  get_account(s.sdb, sender).balance))

\* Faulty variant of transfer_with_fee: the fee leaves the sender by a
\* write of its own that is not registered for undo, and the receiver is
\* credited the value alone.
transfer_with_fee_kept(s, sender, receiver, receiver_exists, must_create, value, fee) ==
    IF ~Ok(s) THEN s
    ELSE IF ~get_account(s.sdb, sender).found THEN Fail(s, "AccountNotFound", sender)
    ELSE IF get_account(s.sdb, sender).balance < fee + value THEN Fail(s, "Panic", sender)
    ELSE transfer_to(
             transfer_debit(
                 push_op(s, "WRITE",
                     AccountOp(sender, "Balance",
                               get_account(s.sdb, sender).balance - fee,
                               get_account(s.sdb, sender).balance)),
                 sender, value),
             receiver, receiver_exists, must_create, value, TRUE)

\* transfer_with_fee: value + fee goes from the sender to the receiver by
\* the reversible transfer, the debit of the sender and then the credit of
\* the receiver.  A balance below value + fee overflows the Word
\* subtraction, which panics.
transfer_with_fee(s, sender, receiver, receiver_exists, must_create, value, fee) ==
    IF ~Ok(s) THEN s
    ELSE IF ~get_account(s.sdb, sender).found THEN Fail(s, "AccountNotFound", sender)
    ELSE IF get_account(s.sdb, sender).balance < fee + value THEN Fail(s, "Panic", sender)
    ELSE transfer_to(transfer_debit(s, sender, value + fee),
                     receiver, receiver_exists, must_create, value + fee, TRUE)

\* The write that undoes a reversible write: value and previous value swap.
RevOp(op) == [op EXCEPT !.value = op.prev, !.prev = op.value]

RECURSIVE ReplayReversed(_, _, _)
ReplayReversed(s, ops, n) ==
    IF ~Ok(s) \/ n = 0 THEN s
    ELSE ReplayReversed(
             insert_op([s EXCEPT !.sdb = apply_op(@, RevOp(ops[n]))],
                       "WRITE", RevOp(ops[n]), FALSE, TRUE),
             ops, n - 1)

\* handle_reversion: pops the innermost reversion group and replays its
\* writes in reverse order, each as a new write carrying the recorded
\* previous value.
handle_reversion(s) ==
    IF ~Ok(s) \/ s.reversion_groups = <<>> THEN s
    ELSE LET n == Len(s.reversion_groups)
             group == s.reversion_groups[n]
         IN  [ReplayReversed([s EXCEPT !.reversion_groups = SubSeq(@, 1, n - 1)],
                             group, Len(group))
                 EXCEPT !.reverted = @ + 1]

\* A failed frame reads back IsSuccess and RwCounterEndOfReversion.
restore_failed(s, failed) ==
    IF ~Ok(s) \/ ~failed THEN s
    ELSE call_context_read(
             call_context_read(s, call(s).call_id, "IsSuccess", 0),
             call(s).call_id, "RwCounterEndOfReversion", 0)

\* The caller restore operations of a frame that has a caller: active call
\* id, program counter, stack pointer, gas.
restore_caller(s) ==
    IF ~Ok(s) THEN s
    ELSE IF call(s).is_root THEN s
    ELSE LET caller_id == s.calls[Len(s.calls) - 1].call_id
         IN  call_context_read(
               call_context_read(
                 call_context_read(
                   call_context_read(s, call(s).call_id, "CallerId", caller_id),
                   caller_id, "ProgramCounter", 0),
                 caller_id, "StackPointer", 0),
               caller_id, "GasLeft", 0)

handle_restore_context(s) == restore_caller(restore_failed(s, ~call(s).is_success))

return_restore(s, need_restore) ==
    IF Ok(s) /\ need_restore THEN handle_restore_context(s) ELSE s

return_revert(s) ==
    IF Ok(s) /\ ~call(s).is_success THEN handle_reversion(s) ELSE s

return_pop(s, need_restore) ==
    IF ~Ok(s) THEN s
    ELSE [s EXCEPT !.calls = SubSeq(@, 1, Len(@) - 1),
                   !.restored = Append(@, need_restore)]

\* handle_return: restores the caller's context when asked to, reverts the
\* frame's writes when it did not succeed, and pops the frame.
handle_return(s, need_restore) ==
    return_pop(return_revert(return_restore(s, need_restore)), need_restore)

\* The step being built is pushed to the steps of the transaction.
push_step(s) ==
    IF ~Ok(s) THEN s ELSE [s EXCEPT !.tx_steps = Append(@, s.exec_step)]

----------------------------------------------------------------------------
(* gen_begin_tx_ops *)

\* Faulty variant of gen_tx_l1_fee_ops: the overhead slot is read before
\* the base fee slot.
gen_tx_l1_fee_ops_swapped(s, t) ==
    push_op(
      push_op(
        push_op(s, "READ",
            StorageOp(0, "OVERHEAD_SLOT", t.l1_fee_overhead, t.l1_fee_overhead, t.tx_id)),
        "READ",
        StorageOp(0, "BASE_FEE_SLOT", t.l1_base_fee, t.l1_base_fee, t.tx_id)),
      "READ",
      StorageOp(0, "SCALAR_SLOT", t.l1_fee_scalar, t.l1_fee_scalar, t.tx_id))

\* Add 3 RW read operations for transaction L1 fee.
gen_tx_l1_fee_ops(s, t) ==
    push_op(
      push_op(
        push_op(s, "READ",
            StorageOp(0, "BASE_FEE_SLOT", t.l1_base_fee, t.l1_base_fee, t.tx_id)),
        "READ",
        StorageOp(0, "OVERHEAD_SLOT", t.l1_fee_overhead, t.l1_fee_overhead, t.tx_id)),
      "READ",
      StorageOp(0, "SCALAR_SLOT", t.l1_fee_scalar, t.l1_fee_scalar, t.tx_id))

\* Faulty variant of l1msg_create_caller: the caller is written whether it
\* is empty or not.
l1msg_create_caller_always(s, t, b, caller_acc) ==
    account_write(s, t.caller_address, "CodeHash", caller_acc.code_hash, ZeroHash)

\* An empty caller of an L1 message is created by plain writes: the code
\* hash, and with the scroll feature the keccak code hash.
l1msg_create_caller(s, t, b, caller_acc) ==
    IF is_empty(caller_acc) /\ b.scroll
    THEN push_op(account_write(s, t.caller_address, "CodeHash",
                               caller_acc.code_hash, ZeroHash),
                 "WRITE",
                 AccountOp(t.caller_address, "KeccakCodeHash",
                           caller_acc.code_hash, ZeroHash))
    ELSE IF is_empty(caller_acc)
    THEN account_write(s, t.caller_address, "CodeHash", caller_acc.code_hash, ZeroHash)
    ELSE s

\* An L1 message reads the caller's code hash and creates the caller when
\* it is empty; any other transaction reads the fee oracle.
begin_tx_l1msg_or_fee(s, t, b) ==
    IF t.is_l1_msg
    THEN l1msg_create_caller(
             account_read(s, t.caller_address, "CodeHash",
                          code_hash_read(get_account(s.sdb, t.caller_address))),
             t, b, get_account(s.sdb, t.caller_address))
    ELSE gen_tx_l1_fee_ops(s, t)

\* L1Fee, then TxId, RwCounterEndOfReversion, IsPersistent, IsSuccess.
begin_tx_call_context(s, t, c) ==
    call_context_write(
      call_context_write(
        call_context_write(
          call_context_write(
            call_context_write(s, c.call_id, "L1Fee", t.l1_fee),
            c.call_id, "TxId", t.tx_id),
          c.call_id, "RwCounterEndOfReversion", 0),
        c.call_id, "IsPersistent", B2N(c.is_persistent)),
      c.call_id, "IsSuccess", B2N(c.is_success))

\* Faulty variant of begin_tx_nonce: the write is registered for undo.
begin_tx_nonce_reversible(s, t, nonce_prev) ==
    push_op_reversible(s, AccountOp(t.caller_address, "Nonce", nonce_prev + 1, nonce_prev))

\* Increase caller's nonce
begin_tx_nonce(s, t, nonce_prev) ==
    account_write(s, t.caller_address, "Nonce", nonce_prev + 1, nonce_prev)

\* Faulty variant of begin_tx_warm: the write always records a cold
\* address.
begin_tx_warm_cold(s, t, address) ==
    IF ~Ok(s) THEN s
    ELSE tx_accesslist_account_write(
             [s EXCEPT !.sdb = add_account_to_access_list(@, address)],
             t.tx_id, address, TRUE, FALSE)

\* Faulty variant of begin_tx_warm: the write is not registered for undo.
begin_tx_warm_plain(s, t, address) ==
    IF ~Ok(s) THEN s
    ELSE push_op([s EXCEPT !.sdb = add_account_to_access_list(@, address)], "WRITE",
                 TxAccessListAccountOp(t.tx_id, address, TRUE,
                                       check_account_in_access_list(s.sdb, address)))

\* One access-list write: the address is added to the ledger's access list
\* and the write records whether it was warm before.
begin_tx_warm(s, t, address) ==
    IF ~Ok(s) THEN s
    ELSE tx_accesslist_account_write(
             [s EXCEPT !.sdb = add_account_to_access_list(@, address)],
             t.tx_id, address, TRUE, check_account_in_access_list(s.sdb, address))

RECURSIVE begin_tx_warm_all(_, _, _, _)
begin_tx_warm_all(s, t, addresses, i) ==
    IF ~Ok(s) \/ i > Len(addresses) THEN s
    ELSE begin_tx_warm_all(begin_tx_warm(s, t, addresses[i]), t, addresses, i + 1)

\* for address in 1..=9
precompile_addresses == [i \in 1..NumPrecompiles |-> i]

\* Caller, callee and coinbase (only for Shanghai).
accessed_addresses(t, b) ==
    IF b.shanghai
    THEN <<t.caller_address, t.address, b.coinbase>>
    ELSE <<t.caller_address, t.address>>

begin_tx_access_list(s, t, b) ==
    begin_tx_warm_all(begin_tx_warm_all(s, t, precompile_addresses, 1),
                      t, accessed_addresses(t, b), 1)

callee_exists(s, t) == ~is_empty(get_account(s.sdb, t.address))

account_code_hash(s, t) ==
    IF callee_exists(s, t) THEN get_account(s.sdb, t.address).code_hash ELSE ZeroHash

is_empty_or_zero(code_hash) == code_hash = ZeroHash \/ code_hash = empty_code_hash

\* Get code_hash of callee account; the storage of an empty callee is
\* cleared first when no value is sent, which appends nothing.
begin_tx_code_hash(s, t) ==
    IF ~Ok(s) THEN s
    ELSE account_read(
             IF ~callee_exists(s, t) /\ t.value = 0
             THEN [s EXCEPT !.sdb = [get_account_mut(@, t.address)
                                        EXCEPT !.state[t.address].storage = 0]]
             ELSE s,
             t.address, "CodeHash", account_code_hash(s, t))

\* Faulty variant of begin_tx_collision: the collision goes unnoticed.
begin_tx_collision_ignored(s, t, code_hash, callee_nonce) == s

\* The deployment collision of a creation transaction is unimplemented!().
begin_tx_collision(s, t, code_hash, callee_nonce) ==
    IF t.is_create /\ (~is_empty_or_zero(code_hash) \/ callee_nonce # 0)
    THEN Fail(s, "Panic", t.address)
    ELSE s

\* Faulty variant of begin_tx_fee: the L1 fee is left out.
begin_tx_fee_gas_only(t) ==
    IF t.is_l1_msg THEN 0 ELSE t.gas_price * t.gas

begin_tx_fee(t) ==
    IF t.is_l1_msg THEN 0 ELSE t.gas_price * t.gas + t.l1_fee

\* Transfer with fee
begin_tx_transfer(s, t, exists) ==
    transfer_with_fee(s, t.caller_address, t.address, exists, t.is_create,
                      t.value, begin_tx_fee(t))

\* Faulty variant of begin_tx_create_inputs: recording the copy consumes a
\* counter value without appending an operation.
begin_tx_create_inputs_counted(s, t, nonce_prev) ==
    IF ~Ok(s) \/ ~t.is_create THEN s
    ELSE [s EXCEPT !.sha3_inputs =
                      @ \o << <<"rlp", t.caller_address, nonce_prev>>,
                              <<"init_code", t.input_len, 0>> >>,
                   !.copy_events =
                      Append(@, [src_type |-> "TxCalldata", src_id |-> t.tx_id,
                                 src_addr |-> 0, src_addr_end |-> t.input_len,
                                 dst_type |-> "Bytecode", dst_addr |-> 0,
                                 rw_counter_start |-> s.rwc, padding |-> 0]),
                   !.rwc = @ + 1]

\* Faulty variant of begin_tx_create_inputs: the RLP input takes the nonce
\* after the increment and follows the init code.
begin_tx_create_inputs_swapped(s, t, nonce_prev) ==
    IF ~Ok(s) \/ ~t.is_create THEN s
    ELSE [s EXCEPT !.sha3_inputs =
                      @ \o << <<"init_code", t.input_len, 0>>,
                              <<"rlp", t.caller_address, nonce_prev + 1>> >>,
                   !.copy_events =
                      Append(@, [src_type |-> "TxCalldata", src_id |-> t.tx_id,
                                 src_addr |-> 0, src_addr_end |-> t.input_len,
                                 dst_type |-> "Bytecode", dst_addr |-> 0,
                                 rw_counter_start |-> s.rwc, padding |-> 0])]

\* A creation transaction feeds the keccak inputs (RLP of caller and nonce,
\* then the init code) and records the copy of the init code; push_copy
\* appends no operation.
begin_tx_create_inputs(s, t, nonce_prev) ==
    IF ~Ok(s) \/ ~t.is_create THEN s
    ELSE [s EXCEPT !.sha3_inputs =
                      @ \o << <<"rlp", t.caller_address, nonce_prev>>,
                              <<"init_code", t.input_len, 0>> >>,
                   !.copy_events =
                      Append(@, [src_type |-> "TxCalldata", src_id |-> t.tx_id,
                                 src_addr |-> 0, src_addr_end |-> t.input_len,
                                 dst_type |-> "Bytecode", dst_addr |-> 0,
                                 rw_counter_start |-> s.rwc, padding |-> 0])]

RECURSIVE write_call_context(_, _, _, _)
write_call_context(s, call_id, fields, i) ==
    IF ~Ok(s) \/ i > Len(fields) THEN s
    ELSE write_call_context(
             call_context_write(s, call_id, fields[i][1], fields[i][2]),
             call_id, fields, i + 1)

\* Faulty variant of frame_fields: three fields only.
frame_fields_three(t, c, callee_address, call_data_length, is_create) ==
    << <<"Depth", 1>>, <<"CallerAddress", t.caller_address>>,
       <<"CalleeAddress", callee_address>> >>

\* The call-context fields of the new frame.
frame_fields(t, c, callee_address, call_data_length, is_create) ==
    << <<"Depth", 1>>, <<"CallerAddress", t.caller_address>>,
       <<"CalleeAddress", callee_address>>, <<"CallDataOffset", 0>>,
       <<"CallDataLength", call_data_length>>, <<"Value", t.value>>,
       <<"IsStatic", 0>>, <<"LastCalleeId", 0>>,
       <<"LastCalleeReturnDataOffset", 0>>, <<"LastCalleeReturnDataLength", 0>>,
       <<"IsRoot", 1>>, <<"IsCreate", is_create>>, <<"CodeHash", c.code_hash>> >>

\* Faulty variant of begin_tx_frame: the precompile test comes before the
\* creation test.
begin_tx_frame_precompile_first(s, t, c, is_precompile, is_empty_code_hash) ==
    IF is_precompile THEN s
    ELSE IF t.is_create
    THEN write_call_context(
             push_op_reversible(s, AccountOp(t.address, "Nonce", 1, 0)),
             c.call_id, frame_fields(t, c, AddrNew, 0, 1), 1)
    ELSE IF ~is_empty_code_hash
    THEN write_call_context(s, c.call_id,
             frame_fields(t, c, t.address, t.input_len, B2N(t.is_create)), 1)
    ELSE s

\* There are 4 branches: creation, precompile, empty code, non-empty code.
begin_tx_frame(s, t, c, is_precompile, is_empty_code_hash) ==
    IF t.is_create
    THEN write_call_context(
             push_op_reversible(s, AccountOp(t.address, "Nonce", 1, 0)),
             c.call_id, frame_fields(t, c, AddrNew, 0, 1), 1)
    ELSE IF is_precompile THEN s
    ELSE IF ~is_empty_code_hash
         THEN write_call_context(s, c.call_id,
                  frame_fields(t, c, t.address, t.input_len, B2N(t.is_create)), 1)
         ELSE s

\* Faulty variant of begin_tx_finish: every root call that fails is
\* reverted here.
begin_tx_finish_any_failure(s, is_precompile) ==
    push_step(IF Ok(s) /\ ~call(s).is_success
              THEN handle_reversion(s) ELSE s)

\* A failed call to a precompile is reverted here; then the step is pushed.
begin_tx_finish(s, is_precompile) ==
    push_step(IF Ok(s) /\ is_precompile /\ ~call(s).is_success
              THEN handle_reversion(s) ELSE s)

\* The callee's code hash is read, a deployment collision stops the
\* transaction, and the fee and the value are transferred.
begin_tx_pay(s, t) ==
    begin_tx_transfer(
        begin_tx_collision(begin_tx_code_hash(s, t), t, account_code_hash(s, t),
                           get_account(s.sdb, t.address).nonce),
        t, callee_exists(s, t))

\* From the callee's code hash on; `s` is the context after the
\* access-list writes, where the callee account is looked up.
begin_tx_callee(s, t, c, nonce_prev) ==
    LET paid == begin_tx_pay(s, t)
        framed == begin_tx_frame(begin_tx_create_inputs(paid, t, nonce_prev), t, c,
                      is_precompiled(t.address),
                      is_empty_or_zero(account_code_hash(s, t)))
    IN  IF ~Ok(paid) THEN paid
        ELSE IF ~Ok(framed) THEN framed
        ELSE begin_tx_finish(framed, is_precompiled(t.address))

\* From the nonce write on; `s` is the context after the call-context
\* writes, where the caller's nonce is looked up.
begin_tx_caller(s, t, b, c) ==
    LET warmed == begin_tx_access_list(
                      begin_tx_nonce(s, t, get_nonce(s.sdb, t.caller_address)), t, b)
    IN  IF ~Ok(warmed) THEN warmed
        ELSE begin_tx_callee(warmed, t, c, get_nonce(s.sdb, t.caller_address))

\* new_begin_tx_step and new_end_tx_step
new_tx_step(s, t, kind) ==
    [s EXCEPT !.exec_step = [tx_id |-> t.tx_id, kind |-> kind,
                             index |-> 0, op |-> "None", error |-> "None"]]

gen_begin_tx_ops(s, t, b) ==
    LET written == begin_tx_call_context(
                       begin_tx_l1msg_or_fee(new_tx_step(s, t, "BeginTx"), t, b), t, call(s))
    IN  IF ~Ok(written) THEN written
        ELSE begin_tx_caller(written, t, b, call(s))

----------------------------------------------------------------------------
(* gen_end_tx_ops *)

gas_used(t) == t.gas - t.gas_left

\* Faulty variant of effective_refund: the refund is not capped.
effective_refund_uncapped(refund, t) == refund

\* refund.min((tx.gas - gas_left) / MAX_REFUND_QUOTIENT_OF_GAS_USED)
effective_refund(refund, t) ==
    Min(refund, gas_used(t) \div MAX_REFUND_QUOTIENT_OF_GAS_USED)

\* tx.gas - gas_left - effective_refund
end_tx_gas_cost(refund, t) == gas_used(t) - effective_refund(refund, t)

\* Faulty variant of coinbase_reward: the refund is not taken off the gas
\* paid for.
coinbase_reward_gross(refund, t, b) ==
    IF t.is_l1_msg THEN 0
    ELSE (t.gas_price - b.base_fee) * gas_used(t) + t.l1_fee

\* effective_tip * gas_cost + l1_fee, or zero for an L1 message
coinbase_reward(refund, t, b) ==
    IF t.is_l1_msg THEN 0
    ELSE (t.gas_price - b.base_fee) * end_tx_gas_cost(refund, t) + t.l1_fee

\* Reads of TxId, IsPersistent and L1Fee.
end_tx_reads(s, t, c) ==
    call_context_read(
      call_context_read(
        call_context_read(s, c.call_id, "TxId", t.tx_id),
        c.call_id, "IsPersistent", B2N(c.is_persistent)),
      c.call_id, "L1Fee", t.l1_fee)

\* Faulty variant of end_tx_refund_read: the entry is written back after
\* the read.
end_tx_refund_rewritten(s, t, refund) ==
    push_op(push_op(s, "READ", TxRefundOp(t.tx_id, refund, refund)),
            "WRITE", TxRefundOp(t.tx_id, refund, refund))

\* The refund entry of the transaction is read: value and previous value
\* are the ledger's refund.
end_tx_refund_read(s, t, refund) ==
    push_op(s, "READ", TxRefundOp(t.tx_id, refund, refund))

\* Faulty variant of end_tx_refund_caller: an L1 message is credited too.
end_tx_refund_caller_always(s, t, refund) ==
    IF ~Ok(s) THEN s
    ELSE IF ~get_account(s.sdb, t.caller_address).found
    THEN Fail(s, "AccountNotFound", t.caller_address)
    ELSE account_write(s, t.caller_address, "Balance",
             get_account(s.sdb, t.caller_address).balance
               + t.gas_price * (t.gas_left + effective_refund(refund, t)),
             get_account(s.sdb, t.caller_address).balance)

\* The caller gets gas_price * (gas_left + effective_refund) back, unless
\* the transaction is an L1 message; a caller without entry is an error.
end_tx_refund_caller(s, t, refund) ==
    IF ~Ok(s) THEN s
    ELSE IF ~get_account(s.sdb, t.caller_address).found
    THEN Fail(s, "AccountNotFound", t.caller_address)
    ELSE IF t.is_l1_msg THEN s
    ELSE account_write(s, t.caller_address, "Balance",
             get_account(s.sdb, t.caller_address).balance
               + t.gas_price * (t.gas_left + effective_refund(refund, t)),
             get_account(s.sdb, t.caller_address).balance)

\* The coinbase's code hash is read and the reward transferred; `s` is the
\* context after the lookup that creates a missing coinbase entry.
end_tx_coinbase_reward(s, t, b, refund, found) ==
    IF ~found THEN Fail(s, "AccountNotFound", b.coinbase)
    ELSE IF t.is_l1_msg
    THEN account_read(s, b.coinbase, "CodeHash",
                      code_hash_read(get_account(s.sdb, b.coinbase)))
    ELSE transfer_to(
             account_read(s, b.coinbase, "CodeHash",
                          code_hash_read(get_account(s.sdb, b.coinbase))),
             b.coinbase, ~is_empty(get_account(s.sdb, b.coinbase)), FALSE,
             coinbase_reward(refund, t, b), FALSE)

\* effective_tip = gas_price - base_fee is a Word subtraction: it panics
\* when the base fee exceeds the gas price.  Then the coinbase entry is
\* fetched (created when missing, which is an error).
end_tx_coinbase(s, t, b, refund) ==
    IF ~Ok(s) THEN s
    ELSE IF t.gas_price < b.base_fee THEN Fail(s, "Panic", 0)
    ELSE end_tx_coinbase_reward([s EXCEPT !.sdb = get_account_mut(@, b.coinbase)],
                                t, b, refund, get_account(s.sdb, b.coinbase).found)

\* Faulty variant of end_tx_receipt_prev: the first transaction reads a
\* previous cumulative value too.
end_tx_receipt_prev_always(s, t) ==
    tx_receipt_read(s, t.tx_id - 1, "CumulativeGasUsed", s.cumulative_gas_used)

\* The cumulative gas of the previous transactions is read after the first
\* transaction.
end_tx_receipt_prev(s, t) ==
    IF t.tx_id > 1
    THEN tx_receipt_read(s, t.tx_id - 1, "CumulativeGasUsed", s.cumulative_gas_used)
    ELSE s

\* cumulative_gas_used += tx.gas - gas_left, then the receipt field.
end_tx_receipt_cumulative(s, t) ==
    IF ~Ok(s) THEN s
    ELSE tx_receipt_write([s EXCEPT !.cumulative_gas_used = @ + gas_used(t)],
                          t.tx_id, "CumulativeGasUsed",
                          s.cumulative_gas_used + gas_used(t))

\* Faulty variant of end_tx_receipt: the log count is written before the
\* status.
end_tx_receipt_log_first(s, t, c) ==
    end_tx_receipt_cumulative(
      end_tx_receipt_prev(
        tx_receipt_write(
          tx_receipt_write(s, t.tx_id, "LogLength", 0),
          t.tx_id, "PostStateOrStatus", B2N(c.is_persistent)),
        t),
      t)

\* Receipt: status, log length, the previous cumulative gas, the
\* cumulative gas.
end_tx_receipt(s, t, c) ==
    end_tx_receipt_cumulative(
      end_tx_receipt_prev(
        tx_receipt_write(
          tx_receipt_write(s, t.tx_id, "PostStateOrStatus", B2N(c.is_persistent)),
          t.tx_id, "LogLength", 0),
        t),
      t)

\* Faulty variant of end_tx_next_tx_id: the write targets the call id rwc.
end_tx_next_tx_id_current(s, t) ==
    IF ~Ok(s) \/ t.is_last_tx THEN s
    ELSE call_context_write(s, s.rwc, "TxId", t.tx_id + 1)

\* The TxId of the next transaction, written to the call id rwc + 1.
end_tx_next_tx_id(s, t) ==
    IF ~Ok(s) \/ t.is_last_tx THEN s
    ELSE call_context_write(s, s.rwc + 1, "TxId", t.tx_id + 1)

\* The receipt and the next transaction's id; gen_end_tx_ops returns the
\* step and its caller pushes it to the steps.
end_tx_close(s, t, c) ==
    push_step(end_tx_next_tx_id(end_tx_receipt(s, t, c), t))

\* From the refund read on, which nothing writes back; `s` is the context
\* after the three reads.
end_tx_settle(s, t, b, c, refund) ==
    LET paid == end_tx_coinbase(
                    end_tx_refund_caller(end_tx_refund_read(s, t, refund),
                                         t, refund),
                    t, b, refund)
    IN  IF ~Ok(paid) THEN paid ELSE end_tx_close(paid, t, c)

gen_end_tx_ops(s, t, b) ==
    end_tx_settle(end_tx_reads(new_tx_step(s, t, "EndTx"), t, s.root_call),
                  t, b, s.root_call, s.sdb.refund)

----------------------------------------------------------------------------
(* Opcode handlers *)

Handler(name, n, m, err) == [name |-> name, n |-> n, m |-> m, err |-> err]

StackOnlyOpcode(n_pop, n_push, is_err) ==
    Handler("StackOnlyOpcode", n_pop, n_push, is_err)
CallOpcode(n_args) == Handler("CallOpcode", n_args, 1, FALSE)
Create(is_create2) == Handler("Create", IF is_create2 THEN 4 ELSE 3, 1, FALSE)
Named(name) == Handler(name, 0, 0, FALSE)
NoHandler == Named("None")

PushWithData == {"PUSH1", "PUSH32"}
CallOps == {"CALL", "CALLCODE", "DELEGATECALL", "STATICCALL"}
CreateOps == {"CREATE", "CREATE2"}

\* Opcodes with a handler of their own in the table (DUP1 stands for the
\* DUP family, SWAP1 for SWAP, LOG0 for LOG).
BespokeOps == {"ADDRESS", "BALANCE", "ORIGIN", "CALLER", "CALLVALUE",
               "CALLDATASIZE", "CALLDATALOAD", "CALLDATACOPY", "GASPRICE",
               "CODECOPY", "CODESIZE", "EXP", "EXTCODESIZE", "EXTCODECOPY",
               "RETURNDATASIZE", "RETURNDATACOPY", "EXTCODEHASH", "BLOCKHASH",
               "SELFBALANCE", "MLOAD", "MSTORE", "MSTORE8", "DUP1", "SWAP1", "LOG0"}

is_push_with_data(op) == op \in PushWithData
is_call_or_create(op) == op \in CallOps \cup CreateOps

\* The handler table keyed by opcode.
fn_gen_associated_ops(op) ==
    IF is_push_with_data(op) THEN StackOnlyOpcode(0, 1, FALSE)
    ELSE CASE op = "PUSH0" -> Named("Push0")
           [] op = "STOP" -> Named("Stop")
           [] op \in {"ADD", "MUL", "SUB", "DIV", "SDIV", "MOD", "SMOD",
                      "SIGNEXTEND", "LT", "GT", "SLT", "SGT", "EQ", "AND", "OR",
                      "XOR", "BYTE", "SHL", "SHR", "SAR"} -> StackOnlyOpcode(2, 1, FALSE)
           [] op \in {"ADDMOD", "MULMOD"} -> StackOnlyOpcode(3, 1, FALSE)
           [] op \in {"ISZERO", "NOT"} -> StackOnlyOpcode(1, 1, FALSE)
           [] op \in {"COINBASE", "TIMESTAMP", "NUMBER", "DIFFICULTY", "GASLIMIT",
                      "CHAINID", "BASEFEE", "PC", "MSIZE", "GAS"} ->
                 StackOnlyOpcode(0, 1, FALSE)
           [] op \in {"POP", "JUMP"} -> StackOnlyOpcode(1, 0, FALSE)
           [] op = "JUMPI" -> StackOnlyOpcode(2, 0, FALSE)
           [] op = "SHA3" -> Named("Sha3")
           [] op \in BespokeOps -> Named(op)
           [] op = "SLOAD" -> Named("Sload")
           [] op = "SSTORE" -> Named("Sstore")
           [] op = "JUMPDEST" -> Named("Dummy")
           [] op \in {"CALL", "CALLCODE"} -> CallOpcode(7)
           [] op \in {"DELEGATECALL", "STATICCALL"} -> CallOpcode(6)
           [] op = "CREATE" -> Create(FALSE)
           [] op = "CREATE2" -> Create(TRUE)
           [] op \in {"RETURN", "REVERT"} -> Named("ReturnRevert")
           [] op = "INVALID" -> Named("Stop")
           [] op = "SELFDESTRUCT" -> Named("DummySelfDestruct")
           [] OTHER -> Named("Dummy")

OogErrors == {"OutOfGas.Call", "OutOfGas.Constant", "OutOfGas.Create",
              "OutOfGas.Log", "OutOfGas.DynamicMemoryExpansion",
              "OutOfGas.StaticMemoryExpansion", "OutOfGas.Exp",
              "OutOfGas.MemoryCopy", "OutOfGas.Sha3", "OutOfGas.SloadSstore",
              "OutOfGas.AccountAccess"}

\* Faulty variant of fn_gen_oog_error_ops: every out-of-gas error is served
\* like the constant one.
fn_gen_oog_error_ops_constant(op, error) == StackOnlyOpcode(0, 0, TRUE)

\* Faulty variant of fn_gen_oog_error_ops: out of gas in CREATE2 pops as
\* many arguments as in CREATE.
fn_gen_oog_error_ops_create_three(op, error) ==
    CASE error = "OutOfGas.Call" -> Named("OOGCall")
      [] error = "OutOfGas.Constant" -> StackOnlyOpcode(0, 0, TRUE)
      [] error = "OutOfGas.Create" ->
            IF op \in {"CREATE", "CREATE2"} THEN StackOnlyOpcode(3, 0, TRUE)
            ELSE Named("Unreachable")
      [] error = "OutOfGas.Log" -> Named("ErrorOOGLog")
      [] error = "OutOfGas.DynamicMemoryExpansion" -> StackOnlyOpcode(2, 0, TRUE)
      [] error = "OutOfGas.StaticMemoryExpansion" -> StackOnlyOpcode(1, 0, TRUE)
      [] error = "OutOfGas.Exp" -> StackOnlyOpcode(2, 0, TRUE)
      [] error = "OutOfGas.MemoryCopy" -> Named("OOGMemoryCopy")
      [] error = "OutOfGas.Sha3" -> StackOnlyOpcode(2, 0, TRUE)
      [] error = "OutOfGas.SloadSstore" -> Named("OOGSloadSstore")
      [] error = "OutOfGas.AccountAccess" -> Named("ErrorOOGAccountAccess")
      [] OTHER -> NoHandler

\* The ExecError::OutOfGas arms of the error table.
fn_gen_oog_error_ops(op, error) ==
    CASE error = "OutOfGas.Call" -> Named("OOGCall")
      [] error = "OutOfGas.Constant" -> StackOnlyOpcode(0, 0, TRUE)
      [] error = "OutOfGas.Create" ->
            IF op = "CREATE" THEN StackOnlyOpcode(3, 0, TRUE)
            ELSE IF op = "CREATE2" THEN StackOnlyOpcode(4, 0, TRUE)
            ELSE Named("Unreachable")
      [] error = "OutOfGas.Log" -> Named("ErrorOOGLog")
      [] error = "OutOfGas.DynamicMemoryExpansion" -> StackOnlyOpcode(2, 0, TRUE)
      [] error = "OutOfGas.StaticMemoryExpansion" -> StackOnlyOpcode(1, 0, TRUE)
      [] error = "OutOfGas.Exp" -> StackOnlyOpcode(2, 0, TRUE)
      [] error = "OutOfGas.MemoryCopy" -> Named("OOGMemoryCopy")
      [] error = "OutOfGas.Sha3" -> StackOnlyOpcode(2, 0, TRUE)
      [] error = "OutOfGas.SloadSstore" -> Named("OOGSloadSstore")
      [] error = "OutOfGas.AccountAccess" -> Named("ErrorOOGAccountAccess")
      [] OTHER -> NoHandler

\* Faulty variant of fn_gen_error_state_associated_ops: a depth error of a
\* call always takes the 7-argument call handler.
fn_gen_error_state_associated_ops_seven(op, error) ==
    CASE error = "InvalidJump" -> Named("InvalidJump")
      [] error = "InvalidOpcode" -> StackOnlyOpcode(0, 0, TRUE)
      [] error = "Depth.Call" -> CallOpcode(7)
      [] error = "Depth.Create" -> Create(FALSE)
      [] error = "Depth.Create2" -> Create(TRUE)
      [] error \in OogErrors -> fn_gen_oog_error_ops(op, error)
      [] error = "InsufficientBalance.Call" -> CallOpcode(7)
      [] OTHER -> NoHandler

\* The handler table keyed by declared error; "Unreachable" stands for the
\* unreachable!() of an error on an opcode that cannot raise it.
fn_gen_error_state_associated_ops(op, error) ==
    CASE error = "InvalidJump" -> Named("InvalidJump")
      [] error = "InvalidOpcode" -> StackOnlyOpcode(0, 0, TRUE)
      [] error = "Depth.Call" ->
            IF op \in {"CALL", "CALLCODE"} THEN CallOpcode(7)
            ELSE IF op \in {"DELEGATECALL", "STATICCALL"} THEN CallOpcode(6)
            ELSE Named("Unreachable")
      [] error = "Depth.Create" -> Create(FALSE)
      [] error = "Depth.Create2" -> Create(TRUE)
      [] error \in OogErrors -> fn_gen_oog_error_ops(op, error)
      [] error = "StackOverflow" -> StackOnlyOpcode(0, 0, TRUE)
      [] error = "StackUnderflow" -> StackOnlyOpcode(0, 0, TRUE)
      [] error = "CodeStoreOutOfGas" -> Named("ErrorCodeStore")
      [] error = "MaxCodeSizeExceeded" -> Named("ErrorCodeStore")
      [] error = "InsufficientBalance.Call" -> CallOpcode(7)
      [] error = "InsufficientBalance.Create" -> Create(FALSE)
      [] error = "InsufficientBalance.Create2" -> Create(TRUE)
      [] error = "PrecompileFailed" -> Named("PrecompileFailed")
      [] error = "WriteProtection" -> Named("ErrorWriteProtection")
      [] error = "ReturnDataOutOfBounds" -> Named("ErrorReturnDataOutOfBound")
      [] error = "ContractAddressCollision.Create" -> Create(FALSE)
      [] error = "ContractAddressCollision.Create2" -> Create(TRUE)
      [] error = "NonceUintOverflow.Create" -> Create(FALSE)
      [] error = "NonceUintOverflow.Create2" -> Create(TRUE)
      [] error = "InvalidCreationCode" -> Named("ErrorCreationCode")
      [] OTHER -> NoHandler

RECURSIVE stack_reads(_, _)
stack_reads(s, n) ==
    IF ~Ok(s) \/ n = 0 THEN s ELSE stack_reads(stack_read(s, 0), n - 1)

RECURSIVE stack_writes(_, _)
stack_writes(s, n) ==
    IF ~Ok(s) \/ n = 0 THEN s ELSE stack_writes(stack_write(s, 0), n - 1)

\* new_step: a fresh ExecStep for the current trace position.
new_step(s, step) ==
    [s EXCEPT !.exec_step = [tx_id |-> s.exec_step.tx_id, kind |-> "Step",
                             index |-> step.index, op |-> step.op,
                             error |-> "None"]]

\* exec_step.error = Some(exec_error)
set_error(s, step) == [s EXCEPT !.exec_step.error = step.error]

\* A handler returns vec![exec_step]; the steps returned are kept in
\* `returned` until the dispatcher hands them to its caller.
return_step(s) == IF Ok(s) THEN [s EXCEPT !.returned = Append(@, s.exec_step)] ELSE s

\* The call parsed from a call/create step: a child of the current frame.
parse_call(s, step) ==
    [call_id |-> s.rwc, caller_address |-> call(s).address, address |-> step.receiver,
     is_root |-> FALSE, is_create |-> step.op \in CreateOps,
     is_success |-> step.child_success,
     is_persistent |-> call(s).is_persistent /\ step.child_success,
     code_hash |-> ContractCodeHash, return_data |-> 0]

\* push_call: the frame goes on the call stack; a frame that does not
\* succeed opens a reversion group.
push_call(s, c) ==
    IF ~Ok(s) THEN s
    ELSE [s EXCEPT !.calls = Append(@, c),
                   !.reversion_groups =
                       IF c.is_success THEN @ ELSE Append(@, <<>>)]

\* The frame of an error variant returns with the caller restored.
stack_only_return(s, h, step) ==
    IF h.err THEN handle_return(set_error(s, step), TRUE) ELSE s

\* StackOnlyOpcode<N_POP, N_PUSH, IS_ERR>: the pops, the pushes, and for an
\* error variant the return of the frame.
gen_stack_only(s, h, step) ==
    return_step(
        stack_only_return(stack_writes(stack_reads(new_step(s, step), h.n), h.m),
                          h, step))

stack_input_num(op) == IF op \in {"CALL", "CALLCODE"} THEN 7 ELSE 6

\* OOGCall reads TxId and IsStatic, pops the arguments of the call and
\* pushes the failure.
oog_call_stack(s, step) ==
    stack_writes(
      stack_reads(
        call_context_read(
          call_context_read(set_error(new_step(s, step), step),
                            call(s).call_id, "TxId", s.exec_step.tx_id),
          call(s).call_id, "IsStatic", 0),
        stack_input_num(step.op)),
      1)

\* It then reads the callee's code hash and warmth.
oog_call_callee(s, step) ==
    push_op(
      account_read(s, step.receiver, "CodeHash",
                   code_hash_read(get_account(s.sdb, step.receiver))),
      "READ",
      TxAccessListAccountOp(s.exec_step.tx_id, step.receiver,
          check_account_in_access_list(s.sdb, step.receiver),
          check_account_in_access_list(s.sdb, step.receiver)))

\* OOGCall: the reads, then the return of the frame.
gen_oog_call(s, step) ==
    LET popped == oog_call_stack(s, step)
    IN  IF ~Ok(popped) THEN popped
        ELSE return_step(handle_return(oog_call_callee(popped, step), TRUE))

\* The child frame is parsed and pushed.
enter_call(s, step) == push_call(s, parse_call(s, step))

\* A child frame that is not entered (a failed precheck, or a callee
\* without code) returns at once without restore.
leave_call(s, step) == IF step.enters THEN s ELSE handle_return(s, FALSE)

\* CallOpcode<N> and Create<IS_CREATE2>: the pops and the result push, then
\* the child frame.
gen_call_or_create(s, h, step) ==
    return_step(
        leave_call(
            enter_call(stack_writes(stack_reads(new_step(s, step), h.n), h.m), step),
            step))

\* Stop, and ReturnRevert alike: reads IsSuccess and returns the frame,
\* restoring the caller unless the frame is the root call.
gen_stop(s, step) ==
    return_step(
        handle_return(
            call_context_read(new_step(s, step), call(s).call_id, "IsSuccess",
                              B2N(call(s).is_success)),
            ~call(s).is_root))

\* Sstore: pops key and value, writes the slot and the refund counter, both
\* reversibly.
gen_sstore(s, step) ==
    return_step(
      push_op_reversible(
        push_op_reversible(
          stack_reads(new_step(s, step), 2),
          StorageOp(call(s).address, "slot", step.value,
                    get_account(s.sdb, call(s).address).storage, s.exec_step.tx_id)),
        TxRefundOp(s.exec_step.tx_id, s.sdb.refund + step.refund, s.sdb.refund)))

\* Faulty variant of gen_dummy: no step is returned.
gen_dummy_stepless(s, step) == new_step(s, step)

\* Dummy: Ok(vec![state.new_step(&geth_steps[0])?])
gen_dummy(s, step) == return_step(new_step(s, step))

\* The specialized error handlers of other files: the step, and the return
\* of the failed frame with the caller restored.
gen_error(s, step) ==
    return_step(handle_return(set_error(new_step(s, step), step), TRUE))

----------------------------------------------------------------------------
(* dummy_gen_selfdestruct_ops *)

selfdestruct_warm(s, receiver) ==
    push_op_reversible(s,
        TxAccessListAccountOp(s.exec_step.tx_id, receiver, TRUE,
                              check_account_in_access_list(s.sdb, receiver)))

\* Faulty variant of selfdestruct_lookup: the executing account is looked
\* up before the receiver.
selfdestruct_lookup_sender_first(s, sender, receiver) ==
    IF ~get_account(s.sdb, sender).found THEN Fail(s, "AccountNotFound", sender)
    ELSE IF ~get_account(s.sdb, receiver).found THEN Fail(s, "AccountNotFound", receiver)
    ELSE s

\* The receiver is looked up first, then the executing account.
selfdestruct_lookup(s, sender, receiver) ==
    IF ~get_account(s.sdb, receiver).found THEN Fail(s, "AccountNotFound", receiver)
    ELSE IF ~get_account(s.sdb, sender).found THEN Fail(s, "AccountNotFound", sender)
    ELSE s

\* Faulty variant of selfdestruct_zero: the nonce write records zero as the
\* previous value.
selfdestruct_zero_unrecorded(s, sender, sender_account) ==
    push_op_reversible(
      push_op_reversible(
        push_op_reversible(s, AccountOp(sender, "Balance", 0, sender_account.balance)),
        AccountOp(sender, "Nonce", 0, 0)),
      AccountOp(sender, "CodeHash", ZeroHash, sender_account.code_hash))

\* Balance, nonce and code hash of the executing account go to zero.
selfdestruct_zero(s, sender, sender_account) ==
    push_op_reversible(
      push_op_reversible(
        push_op_reversible(s, AccountOp(sender, "Balance", 0, sender_account.balance)),
        AccountOp(sender, "Nonce", 0, sender_account.nonce)),
      AccountOp(sender, "CodeHash", ZeroHash, sender_account.code_hash))

\* Faulty variant of selfdestruct_writes: the balance is transferred also
\* when the receiver is the executing account.
selfdestruct_writes_always(s, sender, receiver, sender_account, receiver_account) ==
    transfer_to(selfdestruct_zero(s, sender, sender_account), receiver,
                ~is_empty(receiver_account), FALSE, sender_account.balance, TRUE)

\* The balance the account had goes to a receiver that is another account.
selfdestruct_writes(s, sender, receiver, sender_account, receiver_account) ==
    IF receiver # sender
    THEN transfer_to(selfdestruct_zero(s, sender, sender_account), receiver,
                     ~is_empty(receiver_account), FALSE, sender_account.balance, TRUE)
    ELSE selfdestruct_zero(s, sender, sender_account)

\* Faulty variant of selfdestruct_destruct: the account is destructed in
\* every frame.
selfdestruct_destruct_always(s, sender) ==
    IF Ok(s)
    THEN [s EXCEPT !.sdb = destruct_account(@, sender),
                   !.destructed = @ \cup {sender}]
    ELSE s

\* A persistent frame destructs the account.
selfdestruct_destruct(s, sender) ==
    IF Ok(s) /\ call(s).is_persistent
    THEN [s EXCEPT !.sdb = destruct_account(@, sender),
                   !.destructed = @ \cup {sender}]
    ELSE s

\* The return data of the caller's frame, when there is one, is cleared;
\* return_data is the length of the data a frame holds.
selfdestruct_clear_return_data(s) ==
    IF Ok(s) /\ Len(s.calls) > 1
    THEN [s EXCEPT !.calls[Len(s.calls) - 1].return_data = 0]
    ELSE s

\* The frame returns, restoring the caller unless it is the root call.
selfdestruct_finish(s, sender) ==
    IF ~Ok(s) THEN s
    ELSE handle_return(
             selfdestruct_clear_return_data(selfdestruct_destruct(s, sender)),
             ~call(s).is_root)

\* `s` is the context after the access-list write, where both accounts are
\* looked up.
selfdestruct_accounts(s, sender, receiver) ==
    selfdestruct_finish(
        selfdestruct_writes(selfdestruct_lookup(s, sender, receiver), sender, receiver,
                            get_account(s.sdb, sender), get_account(s.sdb, receiver)),
        sender)

dummy_gen_selfdestruct_ops(s, step) ==
    return_step(
        selfdestruct_accounts(selfdestruct_warm(new_step(s, step), step.receiver),
                              call(s).address, step.receiver))

----------------------------------------------------------------------------
(* gen_associated_ops: dispatch of one trace step *)

run_handler(s, h, step) ==
    CASE h.name = "StackOnlyOpcode" -> gen_stack_only(s, h, step)
      [] h.name = "OOGCall" -> gen_oog_call(s, step)
      [] h.name \in {"CallOpcode", "Create"} -> gen_call_or_create(s, h, step)
      [] h.name \in {"Stop", "ReturnRevert"} -> gen_stop(s, step)
      [] h.name = "Sstore" -> gen_sstore(s, step)
      [] h.name = "DummySelfDestruct" -> dummy_gen_selfdestruct_ops(s, step)
      [] h.name = "Dummy" -> gen_dummy(s, step)
      [] h.name = "Unreachable" -> Fail(s, "Panic", 0)
      [] step.error # "None" -> gen_error(s, step)
      [] OTHER -> gen_dummy(s, step)

event(s, e) == IF Ok(s) THEN [s EXCEPT !.events = Append(@, e)] ELSE s

\* Faulty variant of tag_first_step: the step is returned as the handler
\* left it.
tag_first_step_skipped(s, step) == s

\* steps[0].error = Some(exec_error)
tag_first_step(s, step) ==
    IF Ok(s) /\ s.returned # <<>>
    THEN [s EXCEPT !.returned[1].error = step.error]
    ELSE s

\* The specialized handler runs and the first step it returns is tagged
\* with the declared error.
dispatch_classified(s, h, step) ==
    tag_first_step(run_handler(event(s, "error_handler"), h, step), step)

\* For exceptions that already enter next call context, but fail
\* immediately, the call is parsed and pushed.
fallback_enters(step) ==
    is_call_or_create(step.op) /\ step.error # "OutOfGas.Create"

\* Faulty variant of fallback_push_call: the child frame is never pushed.
fallback_push_call_skipped(s, step) == s

fallback_push_call(s, step) ==
    IF fallback_enters(step)
    THEN event(event(push_call(s, parse_call(s, step)), "parse_call"), "push_call")
    ELSE s

\* Faulty variant of dispatch_fallback: the caller is restored whether or
\* not a call was pushed.
dispatch_fallback_restoring(s, step) ==
    return_step(
        event(handle_return(fallback_push_call(set_error(s, step), step), TRUE),
              "handle_return"))

\* No specialized handler: the current frame returns, with the caller
\* restored unless a call was pushed.
dispatch_fallback(s, step) ==
    return_step(
        event(handle_return(fallback_push_call(set_error(s, step), step),
                            ~fallback_enters(step)),
              "handle_return"))

\* Faulty variant of dispatch: a declared error without specialized handler
\* is served by the handler of the opcode.
dispatch_unhandled_as_opcode(s, step, h) ==
    IF step.get_step_err_fails THEN Fail(s, "Panic", 0)
    ELSE IF step.error # "None" /\ h.name # "None"
    THEN dispatch_classified(s, h, step)
    ELSE run_handler(event(s, "opcode_handler"), fn_gen_associated_ops(step.op), step)

\* `s` is the context after new_step and get_step_err.
dispatch(s, step, h) ==
    IF step.get_step_err_fails THEN Fail(s, "Panic", 0)
    ELSE IF step.error # "None"
    THEN IF h.name # "None"
         THEN dispatch_classified(s, h, step)
         ELSE dispatch_fallback(s, step)
    ELSE run_handler(event(s, "opcode_handler"), fn_gen_associated_ops(step.op), step)

\* Faulty variant of gen_associated_ops: the opcode's handler is selected
\* without the declared-error check.
gen_associated_ops_unchecked(s, step) ==
    run_handler(
        event(event(new_step([s EXCEPT !.returned = <<>>, !.events = <<>>,
                                       !.exec_error = "None"], step),
                    "new_step"),
              "opcode_handler"),
        fn_gen_associated_ops(step.op), step)

\* get_step_err: the error the trace declares for the step, kept as
\* exec_error.
get_step_err(s, step) ==
    event([s EXCEPT !.exec_error = IF step.get_step_err_fails THEN "None"
                                   ELSE step.error],
          "get_step_err")

gen_associated_ops(s, step) ==
    dispatch(
        get_step_err(
            event(new_step([s EXCEPT !.returned = <<>>, !.events = <<>>,
                                     !.exec_error = "None"], step),
                  "new_step"),
            step),
        step, fn_gen_error_state_associated_ops(step.op, step.error))

----------------------------------------------------------------------------
(* Inputs: the block, its ledger, the transactions and their traces *)

\* The ledger the block starts from.  `variant` selects the entries the
\* error paths need: code or a nonce at the address a creation deploys to,
\* an empty account that still has storage, a fee recipient without entry.
InitialAccount(a, variant) ==
    CASE a = AddrA -> [found |-> TRUE, nonce |-> 1, balance |-> InitialBalance,
                       code_hash |-> empty_code_hash, storage |-> 0]
      [] a = 1 -> [found |-> TRUE, nonce |-> 0, balance |-> InitialBalance,
                   code_hash |-> empty_code_hash, storage |-> 0]
      [] a = AddrB -> [found |-> TRUE, nonce |-> 0, balance |-> 0,
                       code_hash |-> empty_code_hash,
                       storage |-> IF variant = "storage" THEN 1 ELSE 0]
      [] a = AddrContract -> [found |-> TRUE, nonce |-> 1, balance |-> 1,
                              code_hash |-> ContractCodeHash, storage |-> 1]
      [] a = AddrCoinbase -> [AccountZero EXCEPT !.found = variant # "no_coinbase"]
      [] a = AddrNew ->
            IF variant = "collision_code"
            THEN [found |-> TRUE, nonce |-> 0, balance |-> 0,
                  code_hash |-> ContractCodeHash, storage |-> 0]
            ELSE IF variant = "collision_nonce"
            THEN [found |-> TRUE, nonce |-> 1, balance |-> 0,
                  code_hash |-> empty_code_hash, storage |-> 0]
            ELSE AccountZero
      [] OTHER -> AccountZero

LedgerVariants == {"plain", "collision_code", "collision_nonce", "storage", "no_coinbase"}

InitialLedger(variant) ==
    [state |-> [a \in Addrs |-> InitialAccount(a, variant)],
     access_list |-> {}, refund |-> 0]

NoStep == [tx_id |-> 0, kind |-> "None", index |-> 0, op |-> "None",
           error |-> "None"]

InitialState(variant) ==
    [rwc |-> 1, container |-> <<>>, sdb |-> InitialLedger(variant),
     cumulative_gas_used |-> 0, calls |-> <<>>, root_call |-> <<>>,
     reversion_groups |-> <<>>, tx_steps |-> <<>>, sha3_inputs |-> <<>>,
     copy_events |-> <<>>, exec_step |-> NoStep, returned |-> <<>>,
     events |-> <<>>, exec_error |-> "None", reverted |-> 0, restored |-> <<>>,
     destructed |-> {},
     result |-> "Ok", err_addr |-> 0]

Features == [shanghai : BOOLEAN, scroll : BOOLEAN]

Block(scenario, ntx, base_fee, f) ==
    [scenario |-> scenario, ntx |-> ntx, base_fee |-> base_fee,
     coinbase |-> AddrCoinbase, shanghai |-> f.shanghai, scroll |-> f.scroll]

TxInput(l1, create, caller, callee, value, gas_price, l1_fee, success) ==
    [tx_id |-> 0, is_last_tx |-> FALSE, is_l1_msg |-> l1, is_create |-> create,
     caller_address |-> caller, address |-> IF create THEN AddrNew ELSE callee,
     value |-> value, gas_price |-> IF l1 THEN 0 ELSE gas_price,
     gas |-> MaxGas, gas_left |-> 0, l1_fee |-> IF l1 THEN 0 ELSE l1_fee,
     l1_base_fee |-> 1, l1_fee_overhead |-> 0, l1_fee_scalar |-> 1,
     input_len |-> IF create THEN 2 ELSE 0, is_success |-> success, nsteps |-> 0]

\* Code runs when the callee has code, or init code is deployed.
HasCode(s, t) ==
    \/ t.is_create
    \/ /\ ~is_precompiled(t.address)
       /\ ~is_empty_or_zero(get_account(s.sdb, t.address).code_hash)

\* The transactions drawn.  One-transaction scenario: every kind of sender
\* and recipient.  Trace scenario: a call to the contract or a creation,
\* persistent or not.  Scenario of nested calls: a call to the contract,
\* persistent or not.  Block scenario: six representative transactions.
TxInputs(scenario) ==
    CASE scenario = "tx" ->
            { TxInput(l1, create, caller, callee, value, gas_price, l1_fee, success) :
                l1 \in BOOLEAN, create \in BOOLEAN,
                caller \in {AddrA, 1, AddrB},
                callee \in {AddrA, AddrB, AddrContract, 1, 2},
                value \in {0, 1}, gas_price \in {0, MaxWord}, l1_fee \in {0, 1},
                success \in BOOLEAN }
      [] scenario = "trace" ->
            { TxInput(FALSE, create, AddrA, AddrContract, 0, 1, 0, success) :
                create \in BOOLEAN, success \in BOOLEAN }
      [] scenario = "calls" ->
            { TxInput(FALSE, FALSE, AddrA, AddrContract, 0, 1, 0, success) :
                success \in BOOLEAN }
      [] OTHER ->
            { TxInput(FALSE, FALSE, AddrA, AddrB, 1, 1, 1, TRUE),
              TxInput(FALSE, FALSE, AddrA, 2, 0, 1, 0, FALSE),
              TxInput(TRUE, FALSE, AddrB, AddrA, 0, 0, 0, TRUE),
              TxInput(FALSE, FALSE, AddrA, AddrContract, 0, MaxWord, 0, TRUE),
              TxInput(FALSE, FALSE, AddrA, AddrContract, 0, 1, 0, FALSE),
              TxInput(FALSE, TRUE, AddrA, AddrNew, 0, 1, 0, TRUE) }

\* A transaction the ledger admits: a duplicate of a create input is
\* dropped, the sender can pay, and the root call of code-less callees
\* fails only on a precompile.
ValidTx(s, t) ==
    /\ (t.is_create => t.caller_address = AddrA)
    /\ (t.caller_address = AddrB => t.is_l1_msg /\ t.value = 0)
    /\ get_account(s.sdb, t.caller_address).balance >=
           t.value + (IF t.is_l1_msg THEN 0 ELSE t.gas_price * t.gas + t.l1_fee)
    /\ (~t.is_success /\ ~HasCode(s, t) => is_precompiled(t.address))

GasLefts == {0, 3, MaxGas}


\* A trace step: opcode, declared error, the address on the stack (callee
\* or receiver), whether a child frame is entered and succeeds, the refund
\* an SSTORE adds, and how the step ends the frame it runs in.
StepInput(op, error, receiver, enters, child_success, refund, ends) ==
    [index |-> 0, op |-> op, error |-> error, receiver |-> receiver,
     enters |-> enters, child_success |-> child_success, value |-> 0,
     refund |-> refund, ends |-> ends, get_step_err_fails |-> FALSE]

Plain(op) == StepInput(op, "None", AddrB, FALSE, TRUE, 0, "no")
Failing(op, error) == StepInput(op, error, AddrB, FALSE, FALSE, 0, "failure")

\* Steps after which the frame goes on.
StepsGoingOn ==
    { Plain("ADD"), Plain("JUMPDEST"), Plain("TLOAD"), Plain("CALL"),
      StepInput("DELEGATECALL", "Depth.Call", AddrB, FALSE, FALSE, 0, "no"),
      StepInput("CALL", "OutOfGas.Precompile", 2, FALSE, FALSE, 0, "no") }
    \cup { StepInput("SSTORE", "None", AddrB, FALSE, TRUE, r, "no") : r \in {1, MaxRefund} }
    \cup { StepInput("CALL", "None", AddrContract, TRUE, cs, 0, "no") : cs \in BOOLEAN }

\* Steps that end a frame that succeeds.
StepsReturning ==
    { StepInput("STOP", "None", AddrB, FALSE, TRUE, 0, "success") }
    \cup { StepInput("SELFDESTRUCT", "None", r, FALSE, TRUE, 0, "success") :
             r \in {AddrA, AddrB, AddrContract, AddrAbsent} }

\* Steps that end a frame that fails.
StepsFailing ==
    { StepInput("REVERT", "None", AddrB, FALSE, FALSE, 0, "failure"),
      Failing("ADD", "OutOfGas.Constant"), Failing("INVALID", "InvalidOpcode"),
      Failing("CREATE", "OutOfGas.Create"), Failing("SHA3", "OutOfGas.Sha3"),
      Failing("JUMP", "InvalidJump"), Failing("ADD", "GasUintOverflow"),
      Failing("SELFDESTRUCT", "OutOfGas.SelfDestruct") }
    \cup { Failing(op, "OutOfGas.Call") : op \in CallOps }

\* A step on which the declared error cannot be determined.
StepsUndetermined ==
    { [Failing("ADD", "None") EXCEPT !.get_step_err_fails = TRUE] }

\* The steps of the scenario of nested calls: a frame is entered by a call
\* or by a creation, writes storage, and ends.
StepsOfCalls ==
    { StepInput("SSTORE", "None", AddrB, FALSE, TRUE, 1, "no"),
      StepInput("STOP", "None", AddrB, FALSE, TRUE, 0, "success"),
      StepInput("REVERT", "None", AddrB, FALSE, FALSE, 0, "failure") }
    \cup { StepInput("CALL", "None", AddrContract, TRUE, cs, 0, "no") : cs \in BOOLEAN }
    \cup { StepInput("CREATE", "None", AddrNew, TRUE, cs, 0, "no") : cs \in BOOLEAN }

StepInputs(scenario) ==
    IF scenario = "trace"
    THEN StepsGoingOn \cup StepsReturning \cup StepsFailing \cup StepsUndetermined
    ELSE IF scenario = "calls" THEN StepsOfCalls
    ELSE { StepInput("STOP", "None", AddrB, FALSE, TRUE, 0, "success"),
           Failing("ADD", "OutOfGas.Constant"),
           StepInput("SELFDESTRUCT", "None", AddrB, FALSE, TRUE, 0, "success") }

StepBound(scenario) ==
    IF scenario = "trace" THEN MaxSteps
    ELSE IF scenario = "calls" THEN MaxSteps + 1 ELSE 1

\* A step the trace can hold at this point: the way it ends the frame
\* agrees with the frame's success, and the call stack has room.
ValidStep(s, step) ==
    /\ (step.ends = "success" => call(s).is_success)
    /\ (step.ends = "failure" => ~call(s).is_success)
    /\ (step.enters => Len(s.calls) < MaxDepth)

----------------------------------------------------------------------------
(* prover/src/utils.rs: re_randomize_srs                                   *)
(*                                                                         *)
(* A group element is held by its discrete logarithm to the generator, as  *)
(* a scalar of the field; the scalars are the integers modulo FieldSize.   *)

FrMul(a, b) == (a * b) % FieldSize

RECURSIVE FrPow(_, _)
FrPow(a, e) == IF e = 0 THEN 1 % FieldSize ELSE FrMul(a, FrPow(a, e - 1))

G1Affine(a) == [log |-> a, form |-> "affine"]

\* *g * *s: the product of an affine point and a scalar is projective.
g1_mul(g, s) == [log |-> FrMul(g.log, s), form |-> "projective"]

\* G1::batch_normalize on one point.
to_affine(point) == [point EXCEPT !.form = "affine"]

\* g_to_lagrange: the Lagrange basis of the points handed in.
g_to_lagrange(g_proj, k) ==
    [k |-> k, basis_of |-> [i \in 1..Len(g_proj) |-> g_proj[i].log]]

RECURSIVE Pow2(_)
Pow2(k) == IF k = 0 THEN 1 ELSE 2 * Pow2(k - 1)

\* ParamsKZG::unsafe_setup(k) for the secret s:
\* g = [G1, [s] G1, [s^2] G1, ..., [s^(n-1)] G1], s_g2 = [s] G2.
unsafe_setup(k, s) ==
    [k |-> k, n |-> Pow2(k),
     g |-> [i \in 1..Pow2(k) |-> G1Affine(FrPow(s, i - 1))],
     g_lagrange |-> g_to_lagrange([i \in 1..Pow2(k) |-> G1Affine(FrPow(s, i - 1))], k),
     s_g2 |-> s % FieldSize]

\* ChaCha20Rng::from_seed and Fr::random: the stream is a function of the
\* seed and of the number of values drawn before.
ChaCha20Rng_from_seed(seed) == [seed |-> seed, drawn |-> 0]

Fr_random(rng) == (5 * rng.seed + 3 + 2 * rng.drawn) % FieldSize

\* powers.push(secret * powers.last().unwrap()), `count` times.
RECURSIVE push_powers(_, _, _)
push_powers(powers, secret, count) ==
    IF count <= 0 THEN powers
    ELSE push_powers(Append(powers, FrMul(secret, powers[Len(powers)])), secret,
                     count - 1)

\* The powers of the secret from the first on.
srs_powers_from_secret(secret, n) ==
    push_powers(<<secret % FieldSize, FrMul(secret, secret)>>, secret, n - 2)

\* vec![Fr::one(), secret] and the loop over 0..param.n - 2.
srs_powers(secret, n) ==
    push_powers(<<1 % FieldSize, secret>>, secret, n - 2)

\* .chunks(chunk_size) over n pairs: the number of chunks.
num_chunks(n, chunk_size) == (n + chunk_size - 1) \div chunk_size

\* The pairs of chunk c: positions of the zipped iterator.
chunk_positions(n, chunk_size, c) ==
    [j \in 1..(IF c * chunk_size <= n THEN chunk_size ELSE n - (c - 1) * chunk_size)
        |-> (c - 1) * chunk_size + j]

\* flat_map_iter on one chunk of g.par_iter().zip(powers.par_iter()):
\* pair.iter().map(|(g, s)| *g * *s)
srs_chunk(g, powers, chunk_size, c) ==
    LET at == chunk_positions(Min(Len(g), Len(powers)), chunk_size, c)
    IN  [j \in 1..Len(at) |-> g1_mul(g[at[j]], powers[at[j]])]

\* collect::<Vec<_>>(): the chunks in the order of the iterator.
RECURSIVE srs_collect(_, _)
srs_collect(chunks, c) ==
    IF c > Len(chunks) THEN <<>> ELSE chunks[c] \o srs_collect(chunks, c + 1)

NoSrs == [at |-> "Idle"]

\* A run before its first statement: the parameters of a setup for the
\* secret s, the seed, and the number of threads of the pool.
SrsStart(k, s, seed, num_threads) ==
    [at |-> "Start", param |-> unsafe_setup(k, s), old |-> unsafe_setup(k, s),
     seed |-> seed, num_threads |-> num_threads,
     secret |-> 0, chunk_size |-> 0, powers |-> <<>>, chunks |-> <<>>,
     new_g_proj |-> <<>>]

\* Faulty variant of srs_begin: the powers start at the secret.
srs_begin_powers_from_secret(r) ==
    LET secret == Fr_random(ChaCha20Rng_from_seed(r.seed))
        chunk_size == r.param.n \div r.num_threads
    IN  [r EXCEPT !.secret = secret,
                  !.chunk_size = chunk_size,
                  !.powers = srs_powers_from_secret(secret, r.param.n),
                  !.chunks = IF chunk_size = 0 THEN <<>>
                             ELSE [c \in 1..num_chunks(r.param.n, chunk_size) |-> <<>>],
                  !.at = IF chunk_size = 0 THEN "Panicked" ELSE "Chunks"]

\* The statements up to the parallel iterator; chunks(0) panics.
srs_begin(r) ==
    LET secret == Fr_random(ChaCha20Rng_from_seed(r.seed))
        chunk_size == r.param.n \div r.num_threads
    IN  [r EXCEPT !.secret = secret,
                  !.chunk_size = chunk_size,
                  !.powers = srs_powers(secret, r.param.n),
                  !.chunks = IF chunk_size = 0 THEN <<>>
                             ELSE [c \in 1..num_chunks(r.param.n, chunk_size) |-> <<>>],
                  !.at = IF chunk_size = 0 THEN "Panicked" ELSE "Chunks"]

\* param.g, param.g_lagrange and param.s_g2 are assigned.
srs_assign(r) ==
    [r EXCEPT !.param.g = [i \in 1..r.param.n |-> to_affine(r.new_g_proj[i])],
              !.param.g_lagrange = g_to_lagrange(r.new_g_proj, r.param.k),
              !.param.s_g2 = FrMul(r.param.s_g2, r.secret),
              !.at = "Done"]

----------------------------------------------------------------------------
(* prover/src/utils.rs: init_env_and_log and create_output_dir             *)

NoEnv == [at |-> "Idle"]

Ids == {"chunk", "batch"}

\* An environment variable is <<>> when it is not set and <<value>> when
\* it is set; the value may be the empty string.
Unset == <<>>
Set(value) == <<value>>

\* dotenvy::dotenv().ok(): every variable of the .env file that the process
\* environment does not hold is set from the file; a variable the
\* environment holds, empty or not, is kept.  Without a file nothing
\* changes (the error is dropped by ok()).
dotenv(vars_set, dotenv_file) ==
    [OUTPUT_DIR |-> IF vars_set.OUTPUT_DIR = Unset THEN dotenv_file.OUTPUT_DIR
                    ELSE vars_set.OUTPUT_DIR,
     MODE |-> IF vars_set.MODE = Unset THEN dotenv_file.MODE ELSE vars_set.MODE,
     RUST_LOG |-> IF vars_set.RUST_LOG = Unset THEN dotenv_file.RUST_LOG
                  ELSE vars_set.RUST_LOG]

\* read_env_var::<String>(key, default): the value of a variable that is
\* set (parsing a String never fails), the default of one that is not.
read_env_var(vars_set, key, default) ==
    IF vars_set[key] = Unset THEN default ELSE vars_set[key][1]

\* The value of RUST_LOG is held as the sequence of its characters, so that
\* its case can be ignored the way the log crate does.
AsciiLowercase == <<"a", "b", "c", "d", "e", "f", "g", "h", "i", "j", "k", "l", "m",
                    "n", "o", "p", "q", "r", "s", "t", "u", "v", "w", "x", "y", "z">>
AsciiUppercase == <<"A", "B", "C", "D", "E", "F", "G", "H", "I", "J", "K", "L", "M",
                    "N", "O", "P", "Q", "R", "S", "T", "U", "V", "W", "X", "Y", "Z">>

to_ascii_lowercase(ch) ==
    IF \E i \in 1..Len(AsciiUppercase) : AsciiUppercase[i] = ch
    THEN AsciiLowercase[CHOOSE i \in 1..Len(AsciiUppercase) : AsciiUppercase[i] = ch]
    ELSE ch

eq_ignore_ascii_case(a, b) ==
    /\ Len(a) = Len(b)
    /\ \A i \in 1..Len(a) : to_ascii_lowercase(a[i]) = to_ascii_lowercase(b[i])

\* LOG_LEVEL_NAMES of the log crate and the LevelFilter of each position.
LOG_LEVEL_NAMES == << <<"O", "F", "F">>, <<"E", "R", "R", "O", "R">>,
                      <<"W", "A", "R", "N">>, <<"I", "N", "F", "O">>,
                      <<"D", "E", "B", "U", "G">>, <<"T", "R", "A", "C", "E">> >>
LevelFilters == <<"Off", "Error", "Warn", "Info", "Debug", "Trace">>

\* LevelFilter::from_str(..).unwrap_or(LevelFilter::Info): the level whose
\* name the string is, whatever the case of its letters, and Info for any
\* other string.
LevelFilter_from_str(log_level) ==
    LET found == {i \in 1..Len(LOG_LEVEL_NAMES) :
                     eq_ignore_ascii_case(LOG_LEVEL_NAMES[i], log_level)}
    IN  IF found = {} THEN "Info"
        ELSE LevelFilters[CHOOSE i \in found : \A j \in found : i <= j]

\* create_output_dir: the name of the directory, OUTPUT_DIR or
\* "{id}_output_{mode}_{time}"; a name is the tuple of its parts.
output_dir_name(vars_set, id, now) ==
    IF vars_set.OUTPUT_DIR # Unset
    THEN <<vars_set.OUTPUT_DIR[1]>>
    ELSE <<id, "output", read_env_var(vars_set, "MODE", "multi"), now>>

\* The working directory, the directory of the empty path.
WorkingDir == <<"">>

\* PathBuf::from(output_dir).push("log.txt"): pushing onto the empty path
\* gives the relative path log.txt, a file of the working directory.
log_file_path_of(output_dir) ==
    IF output_dir = WorkingDir THEN <<"log.txt">> ELSE <<output_dir, "log.txt">>

\* A call of init_env_and_log before its first statement.
NewCall(id) == [at |-> "dotenv", id |-> id, output_dir |-> <<>>,
                returned |-> <<>>]

\* The process: its environment variables, the .env file, the clock, the
\* directories and files of the file system, LOGGER, the configurations
\* handed to log4rs::init_config, the calls running, and whether an
\* operation on the file system or the logger has failed.
ProcessStart(vars_set, dotenv_file, ids) ==
    [at |-> "Running", vars_set |-> vars_set, dotenv_file |-> dotenv_file,
     clock |-> 0, dirs |-> {WorkingDir},
     files |-> {}, LOGGER |-> "Incomplete", appenders |-> <<>>, configs |-> <<>>,
     calls |-> [c \in 1..Len(ids) |-> NewCall(ids[c])], arrived |-> <<>>,
     io_failed |-> FALSE]

\* The outcomes of the operations of a statement on its surroundings:
\* all succeed, the file system refuses (create_dir_all, the opening of
\* log.txt), or a logger is installed already (log4rs::init_config).
IoOutcomes == {"ok", "fs", "logger"}

\* Line 212 by call c.
init_env_and_log_dotenv(e, c) ==
    [e EXCEPT !.vars_set = dotenv(e.vars_set, e.dotenv_file),
              !.calls[c].at = "create_output_dir"]

\* create_output_dir(id) by call c at time `now`; create_dir_all of the
\* empty path creates nothing, and the unwrap panics when it fails.
create_output_dir(e, c, now, io) ==
    LET output == output_dir_name(e.vars_set, e.calls[c].id, now)
    IN  IF io = "fs"
        THEN [e EXCEPT !.clock = now, !.io_failed = TRUE,
                       !.calls[c].at = "panicked"]
        ELSE [e EXCEPT !.clock = now,
                       !.dirs = @ \cup {output},
                       !.calls[c].output_dir = output,
                       !.calls[c].at = "call_once"]

\* LOGGER.call_once without the wait: the closure also runs while another
\* call is running it.
call_once_enter_unguarded(e, c) ==
    IF e.LOGGER \in {"Incomplete", "Running"}
    THEN [e EXCEPT !.LOGGER = "Running", !.calls[c].at = "closure",
                   !.arrived = Append(@, c)]
    ELSE IF e.LOGGER = "Poisoned" THEN [e EXCEPT !.calls[c].at = "panicked"]
    ELSE [e EXCEPT !.calls[c].at = "return", !.arrived = Append(@, c)]

\* LOGGER.call_once: the first call to get there runs the closure, a call
\* that finds it running waits, a call that finds it done goes on, and a
\* call that finds it poisoned by a panic of the closure panics.
call_once_enter(e, c) ==
    IF e.LOGGER = "Incomplete"
    THEN [e EXCEPT !.LOGGER = "Running", !.calls[c].at = "closure",
                   !.arrived = Append(@, c)]
    ELSE IF e.LOGGER = "Running" THEN e
    ELSE IF e.LOGGER = "Poisoned" THEN [e EXCEPT !.calls[c].at = "panicked"]
    ELSE [e EXCEPT !.calls[c].at = "return", !.arrived = Append(@, c)]

\* The closure: the level, the file appender on log.txt in the call's
\* output directory, and the configuration of the logger.  A panic of one
\* of its unwraps poisons LOGGER: of the appender's when the file cannot
\* be opened, of init_config's when a logger is installed already (the
\* file is there by then).
call_once_closure(e, c, io) ==
    LET log_level == read_env_var(e.vars_set, "RUST_LOG", <<"I", "N", "F", "O">>)
        log_file_path == log_file_path_of(e.calls[c].output_dir)
    IN  IF io = "fs"
        THEN [e EXCEPT !.io_failed = TRUE, !.LOGGER = "Poisoned",
                       !.calls[c].at = "panicked"]
        ELSE IF io = "logger"
        THEN [e EXCEPT !.files = @ \cup {log_file_path},
                       !.appenders = Append(@, log_file_path),
                       !.io_failed = TRUE, !.LOGGER = "Poisoned",
                       !.calls[c].at = "panicked"]
        ELSE [e EXCEPT !.files = @ \cup {log_file_path},
                       !.appenders = Append(@, log_file_path),
                       !.configs = Append(@, [log_file |-> log_file_path,
                                              level |-> LevelFilter_from_str(log_level)]),
                       !.LOGGER = "Complete",
                       !.calls[c].at = "return"]

\* The call returns output_dir.
init_env_and_log_return(e, c) ==
    [e EXCEPT !.calls[c].returned = e.calls[c].output_dir,
              !.calls[c].at = "done"]

\* Faulty variant of init_env_and_log: call_once does not wait for a
\* closure that is running.
init_env_and_log_unguarded(e, c, now, io) ==
    CASE e.calls[c].at = "dotenv" -> init_env_and_log_dotenv(e, c)
      [] e.calls[c].at = "create_output_dir" -> create_output_dir(e, c, now, io)
      [] e.calls[c].at = "call_once" -> call_once_enter_unguarded(e, c)
      [] e.calls[c].at = "closure" -> call_once_closure(e, c, io)
      [] e.calls[c].at = "return" -> init_env_and_log_return(e, c)
      [] OTHER -> e

\* init_env_and_log(id): the next statement of call c, at time `now`, its
\* operations on the surroundings having the outcome `io`.
init_env_and_log(e, c, now, io) ==
    CASE e.calls[c].at = "dotenv" -> init_env_and_log_dotenv(e, c)
      [] e.calls[c].at = "create_output_dir" -> create_output_dir(e, c, now, io)
      [] e.calls[c].at = "call_once" -> call_once_enter(e, c)
      [] e.calls[c].at = "closure" -> call_once_closure(e, c, io)
      [] e.calls[c].at = "return" -> init_env_and_log_return(e, c)
      [] OTHER -> e

----------------------------------------------------------------------------
(* History: the ledger at the entry of each live frame, and the frame      *)
(* whose writes the last action replayed or could replay.                  *)

Snapshot(s) == [sdb |-> s.sdb, len |-> Len(s.container)]

NoCheck == [active |-> FALSE, replayed |-> FALSE, is_root |-> FALSE,
            entry |-> [sdb |-> InitialLedger("plain"), len |-> 0]]

\* After an action: the frames still live keep their snapshots, a frame
\* entered by the action gets one, and a frame the action returned while
\* it is not persistent is handed to `check` with its snapshot.
GhostAfter(g, s, s2) ==
    LET n == Len(s.calls)
        n2 == Len(s2.calls)
        kept == SubSeq(g.entries, 1, Min(n, n2))
        popped == Ok(s2) /\ n2 < n /\ ~call(s).is_persistent
        replayed_child == Ok(s2) /\ n2 = n /\ s2.reverted > s.reverted
        replayed_here == Ok(s2) /\ n2 = n /\ s2.reverted > s.reverted
                         /\ s2.exec_step.kind = "BeginTx"
    IN  [entries |-> IF n2 > n THEN Append(kept, Snapshot(s2)) ELSE kept,
         check |->
            IF popped
            THEN [active |-> TRUE, replayed |-> s2.reverted > s.reverted,
                  is_root |-> call(s).is_root, entry |-> g.entries[n]]
            ELSE IF replayed_here
            THEN [active |-> TRUE, replayed |-> TRUE, is_root |-> TRUE,
                  entry |-> g.entries[n]]
            ELSE IF replayed_child
            THEN [active |-> TRUE, replayed |-> TRUE, is_root |-> FALSE,
                  entry |-> Snapshot(s)]
            ELSE NoCheck]

----------------------------------------------------------------------------
(* Transaction lifecycle controller *)

\* The root call of a transaction: its call id is the counter value the
\* transaction starts at; a call that does not succeed opens a reversion
\* group.  The access list and the refund counter start empty.
root_call_of(s, t) ==
    [call_id |-> s.rwc, caller_address |-> t.caller_address, address |-> t.address,
     is_root |-> TRUE, is_create |-> t.is_create, is_success |-> t.is_success,
     is_persistent |-> t.is_success,
     code_hash |-> IF t.is_create THEN ContractCodeHash
                   ELSE get_account(s.sdb, t.address).code_hash,
     return_data |-> 0]

new_tx(s, t) ==
    LET c == root_call_of(s, t)
    IN  [s EXCEPT !.sdb.access_list = {}, !.sdb.refund = 0,
                  !.calls = <<c>>, !.root_call = c,
                  !.reversion_groups = IF t.is_success THEN <<>> ELSE << <<>> >>,
                  !.exec_step = [NoStep EXCEPT !.tx_id = t.tx_id],
                  !.returned = <<>>, !.events = <<>>, !.exec_error = "None"]

Init ==
    \E scenario \in {"tx", "trace", "calls", "block"}, variant \in LedgerVariants,
       f \in Features, base_fee \in {0, 1}, ntx \in 1..MaxTxs :
        /\ (scenario # "block" => ntx = 1)
        /\ (variant # "plain" => ~f.shanghai /\ ~f.scroll)
        /\ (variant \notin {"plain", "no_coinbase"} => base_fee = 0)
        /\ (scenario \in {"trace", "calls"} =>
               variant = "plain" /\ ~f.shanghai /\ ~f.scroll /\ base_fee = 0)
        /\ (scenario = "block" => variant \in {"plain", "no_coinbase"} /\ ~f.scroll
                                  /\ base_fee = 0)
        /\ blk = Block(scenario, ntx, base_fee, f)
        /\ state = InitialState(variant)
        /\ tx = TxInput(FALSE, FALSE, AddrA, AddrB, 0, 0, 0, TRUE)
        /\ pc = "NewTx"
        /\ ghost = [entries |-> <<>>, check |-> NoCheck]
        /\ srs = NoSrs
        /\ env = NoEnv

\* The transaction drawn gets the next id of the block.
NextTx(t0) ==
    IF state.exec_step.kind = "None"
    THEN [t0 EXCEPT !.tx_id = 1, !.is_last_tx = (1 = blk.ntx)]
    ELSE [t0 EXCEPT !.tx_id = tx.tx_id + 1, !.is_last_tx = (tx.tx_id + 1 = blk.ntx)]

NewTx ==
    /\ pc = "NewTx"
    /\ \E t0 \in TxInputs(blk.scenario) :
         /\ ValidTx(state, NextTx(t0))
         /\ tx' = NextTx(t0)
         /\ state' = new_tx(state, NextTx(t0))
         /\ ghost' = [entries |-> <<Snapshot(state')>>, check |-> NoCheck]
    /\ pc' = "BeginTx"
    /\ UNCHANGED <<blk, srs, env>>

BeginTx ==
    /\ pc = "BeginTx"
    /\ state' = gen_begin_tx_ops(state, tx, blk)
    /\ ghost' = GhostAfter(ghost, state, state')
    /\ pc' = IF ~Ok(state') THEN "Failed"
             ELSE IF HasCode(state, tx) THEN "Steps" ELSE "EndTx"
    /\ UNCHANGED <<blk, tx, srs, env>>

\* The steps a handler returned are appended to the transaction's steps.
push_steps(s) ==
    IF Ok(s) THEN [s EXCEPT !.tx_steps = @ \o s.returned] ELSE s

\* One trace step is dispatched; `s2` is the context after the dispatch.
\* The steps left in the trace are enough to end every open frame.
StepTo(s2) ==
    /\ Ok(s2) => Len(s2.calls) <= StepBound(blk.scenario) - tx.nsteps - 1
    /\ state' = push_steps(s2)
    /\ ghost' = GhostAfter(ghost, state, s2)
    /\ pc' = IF ~Ok(s2) THEN "Failed"
             ELSE IF s2.calls = <<>> THEN "EndTx" ELSE "Steps"

Step ==
    /\ pc = "Steps"
    /\ tx.nsteps < StepBound(blk.scenario)
    /\ \E st0 \in StepInputs(blk.scenario) :
         /\ ValidStep(state, [st0 EXCEPT !.index = tx.nsteps + 1])
         /\ StepTo(gen_associated_ops(state, [st0 EXCEPT !.index = tx.nsteps + 1]))
    /\ tx' = [tx EXCEPT !.nsteps = @ + 1]
    /\ UNCHANGED <<blk, srs, env>>

EndTx ==
    /\ pc = "EndTx"
    /\ \E gas_left \in GasLefts :
         /\ tx' = [tx EXCEPT !.gas_left = gas_left]
         /\ state' = gen_end_tx_ops(state, [tx EXCEPT !.gas_left = gas_left], blk)
    /\ ghost' = [entries |-> <<>>, check |-> NoCheck]
    /\ pc' = IF ~Ok(state') THEN "Failed"
             ELSE IF tx.is_last_tx THEN "Done" ELSE "NewTx"
    /\ UNCHANGED <<blk, srs, env>>

Next == NewTx \/ BeginTx \/ Step \/ EndTx

Spec == Init /\ [][Next]_vars

----------------------------------------------------------------------------
(* prover/src/utils.rs: the runs of re_randomize_srs and the calls of      *)
(* init_env_and_log                                                        *)

\* The builder does not run.
BuilderIdle ==
    /\ state = InitialState("plain")
    /\ blk = Block("tx", 1, 0, [shanghai |-> FALSE, scroll |-> FALSE])
    /\ tx = TxInput(FALSE, FALSE, AddrA, AddrB, 0, 0, 0, TRUE)
    /\ pc = "Idle"
    /\ ghost = [entries |-> <<>>, check |-> NoCheck]

builder == <<state, blk, tx, pc, ghost>>

SrsInit ==
    \E k \in 1..MaxK, s \in 1..(FieldSize - 1), seed \in 0..MaxSeed,
       num_threads \in 1..MaxThreads :
        /\ srs = SrsStart(k, s, seed, num_threads)
        /\ env = NoEnv
        /\ BuilderIdle

SrsBegin ==
    /\ srs.at = "Start"
    /\ srs' = srs_begin(srs)
    /\ UNCHANGED <<builder, env>>

\* A worker of the pool takes a chunk that is not done.
SrsChunk ==
    /\ srs.at = "Chunks"
    /\ \E c \in 1..Len(srs.chunks) :
         /\ srs.chunks[c] = <<>>
         /\ srs' = [srs EXCEPT !.chunks[c] =
                        srs_chunk(srs.param.g, srs.powers, srs.chunk_size, c)]
    /\ UNCHANGED <<builder, env>>

SrsCollect ==
    /\ srs.at = "Chunks"
    /\ \A c \in 1..Len(srs.chunks) : srs.chunks[c] # <<>>
    /\ srs' = [srs EXCEPT !.new_g_proj = srs_collect(srs.chunks, 1),
                          !.at = "Collected"]
    /\ UNCHANGED <<builder, env>>

SrsAssign ==
    /\ srs.at = "Collected"
    /\ srs' = srs_assign(srs)
    /\ UNCHANGED <<builder, env>>

SrsNext == SrsBegin \/ SrsChunk \/ SrsCollect \/ SrsAssign

SrsSpec == SrsInit /\ [][SrsNext]_vars

\* The process environments drawn: OUTPUT_DIR not set, set to the empty
\* string or set to a name; MODE not set or set to the empty string;
\* RUST_LOG not set or set to a string that is no level name.
EnvVars ==
    { [OUTPUT_DIR |-> o, MODE |-> m, RUST_LOG |-> l] :
        o \in {Unset, Set(""), Set("out")}, m \in {Unset, Set("")},
        l \in {Unset, Set(<<"v", "e", "r", "b", "o", "s", "e">>)} }

\* The .env files drawn: none (or an empty one), one that names the output
\* directory, one that sets the mode and the level, one that sets the level
\* alone; the level names are in mixed case.
DotenvFiles ==
    { [OUTPUT_DIR |-> Unset, MODE |-> Unset, RUST_LOG |-> Unset],
      [OUTPUT_DIR |-> Set("envout"), MODE |-> Unset, RUST_LOG |-> Unset],
      [OUTPUT_DIR |-> Unset, MODE |-> Set("single"),
       RUST_LOG |-> Set(<<"D", "e", "b", "u", "g">>)],
      [OUTPUT_DIR |-> Unset, MODE |-> Unset,
       RUST_LOG |-> Set(<<"t", "R", "a", "C", "e">>)] }

LogInit ==
    \E vars_set \in EnvVars, dotenv_file \in DotenvFiles, n \in 1..MaxCalls :
      \E ids \in [1..n -> Ids] :
        /\ env = ProcessStart(vars_set, dotenv_file, ids)
        /\ srs = NoSrs
        /\ BuilderIdle

LogDotenv ==
    /\ \E c \in 1..Len(env.calls) :
         /\ env.calls[c].at = "dotenv"
         /\ env' = init_env_and_log(env, c, env.clock, "ok")
    /\ UNCHANGED <<builder, srs>>

LogCreateDir ==
    /\ \E c \in 1..Len(env.calls), now \in env.clock..Min(env.clock + 1, MaxClock),
          io \in {"ok", "fs"} :
         /\ env.calls[c].at = "create_output_dir"
         /\ env' = init_env_and_log(env, c, now, io)
    /\ UNCHANGED <<builder, srs>>

LogCallOnce ==
    /\ \E c \in 1..Len(env.calls) :
         /\ env.calls[c].at = "call_once"
         /\ env' = init_env_and_log(env, c, env.clock, "ok")
    /\ UNCHANGED <<builder, srs>>

LogClosure ==
    /\ \E c \in 1..Len(env.calls), io \in IoOutcomes :
         /\ env.calls[c].at = "closure"
         /\ env' = init_env_and_log(env, c, env.clock, io)
    /\ UNCHANGED <<builder, srs>>

LogReturn ==
    /\ \E c \in 1..Len(env.calls) :
         /\ env.calls[c].at = "return"
         /\ env' = init_env_and_log(env, c, env.clock, "ok")
    /\ UNCHANGED <<builder, srs>>

LogNext == LogDotenv \/ LogCreateDir \/ LogCallOnce \/ LogClosure \/ LogReturn

LogSpec == LogInit /\ [][LogNext]_vars

----------------------------------------------------------------------------
(* Properties of the Operation Log *)

Log == state.container

\* The operations the action appended.
NewOps ==
    SubSeq(state'.container, Len(state.container) + 1, Len(state'.container))

Is(e, rw, tag, field) == e.rw = rw /\ e.tag = tag /\ e.field = field

PhaseRank(kind) ==
    CASE kind = "BeginTx" -> 0 [] kind = "Step" -> 1 [] kind = "EndTx" -> 2
      [] OTHER -> 3

\* e and f were produced at the same place: transaction, phase, trace step.
SamePlace(e, f) == e.tx_id = f.tx_id /\ e.kind = f.kind /\ e.index = f.index

\* e was produced at an earlier place than f.
Precedes(e, f) ==
    \/ e.tx_id < f.tx_id
    \/ e.tx_id = f.tx_id /\ PhaseRank(e.kind) < PhaseRank(f.kind)
    \/ e.tx_id = f.tx_id /\ e.kind = f.kind /\ e.index < f.index

C1_Counters ==
    /\ state.rwc = Len(Log) + 1
    /\ \A i \in 1..Len(Log) : Log[i].rwc = i

C1_AppendOnly ==
    /\ Len(state.container) <= Len(state'.container)
    /\ SubSeq(state'.container, 1, Len(state.container)) = state.container

\* C1: across the block, the i-th operation of the log carries the global
\* counter i (counters start at 1, strictly increasing, no gap, no
\* duplicate) and the next counter is one past the log; every action keeps
\* the log it found as a prefix of the log it leaves (nothing removed or
\* reordered).
C1_Theorem == [](C1_Counters) /\ [][C1_AppendOnly]_vars

\* A finished block of more than one transaction whose log holds BeginTx,
\* step and EndTx operations.
C1_Witness ==
    /\ pc = "Done" /\ blk.ntx > 1
    /\ \E i \in 1..Len(Log) : Log[i].kind = "Step"
    /\ \E i \in 1..Len(Log) : Log[i].kind = "EndTx" /\ Log[i].tx_id = blk.ntx
    /\ \E i \in 1..Len(Log) : Log[i].kind = "BeginTx" /\ Log[i].tx_id = 1

C2_OpsInOrder ==
    \A i \in 1..(Len(Log) - 1) :
        Precedes(Log[i], Log[i + 1]) \/ SamePlace(Log[i], Log[i + 1])

C2_StepsInOrder ==
    \A i \in 1..(Len(state.tx_steps) - 1) :
        Precedes(state.tx_steps[i], state.tx_steps[i + 1])

C2_PhasesRun ==
    /\ pc \in {"Steps", "EndTx"} =>
          \E i \in 1..Len(state.tx_steps) :
              state.tx_steps[i].kind = "BeginTx" /\ state.tx_steps[i].tx_id = tx.tx_id
    /\ pc = "Done" =>
          \A k \in 1..blk.ntx :
              /\ \E i \in 1..Len(state.tx_steps) :
                    state.tx_steps[i].kind = "BeginTx" /\ state.tx_steps[i].tx_id = k
              /\ \E i \in 1..Len(state.tx_steps) :
                    state.tx_steps[i].kind = "EndTx" /\ state.tx_steps[i].tx_id = k

C2_ErrorCheckFirst ==
    state.events # <<>> =>
        /\ Len(state.events) >= 2
        /\ state.events[1] = "new_step"
        /\ state.events[2] = "get_step_err"
        /\ \A i \in 3..Len(state.events) :
              state.events[i] \in {"error_handler", "opcode_handler", "parse_call",
                                   "push_call", "handle_return"}

\* C2: the operations of the log are grouped by transaction, and within a
\* transaction the BeginTx operations come first, then the operations of the
\* trace steps in trace order, then the EndTx operations; the steps of a
\* transaction hold one BeginTx step, the trace steps in trace order and one
\* EndTx step; and in every dispatch the declared error is determined before
\* any handler is selected.
C2_Theorem ==
    C2_OpsInOrder /\ C2_StepsInOrder /\ C2_PhasesRun /\ C2_ErrorCheckFirst

\* A finished transaction with operations of all three phases whose last
\* dispatch ran the declared-error check and then a handler.
C2_Witness ==
    /\ pc = "Done"
    /\ \E i, j, k \in 1..Len(Log) :
          /\ Log[i].kind = "BeginTx" /\ Log[j].kind = "Step" /\ Log[k].kind = "EndTx"
          /\ Log[i].tx_id = Log[j].tx_id /\ Log[j].tx_id = Log[k].tx_id
    /\ Len(state.events) > 2

\* The position of the first read of a code hash.
FirstCodeHashRead(ops) ==
    CHOOSE i \in 1..Len(ops) :
        /\ Is(ops[i], "READ", "Account", "CodeHash")
        /\ \A j \in 1..(i - 1) : ~Is(ops[j], "READ", "Account", "CodeHash")

C3_Order(ops, k) ==
    /\ Len(ops) >= k
    /\ Is(ops[1], "READ", "Storage", "BASE_FEE_SLOT")
    /\ Is(ops[2], "READ", "Storage", "OVERHEAD_SLOT")
    /\ Is(ops[3], "READ", "Storage", "SCALAR_SLOT")
    /\ Is(ops[4], "WRITE", "CallContext", "L1Fee")
    /\ Is(ops[5], "WRITE", "CallContext", "TxId")
    /\ Is(ops[6], "WRITE", "CallContext", "RwCounterEndOfReversion")
    /\ Is(ops[7], "WRITE", "CallContext", "IsPersistent")
    /\ Is(ops[8], "WRITE", "CallContext", "IsSuccess")
    /\ Is(ops[9], "WRITE", "Account", "Nonce")
    /\ ops[9].addr = tx.caller_address /\ ops[9].value = ops[9].prev + 1
    /\ \A i \in 1..9 :
          /\ ops[9 + i].rw = "WRITE" /\ ops[9 + i].tag = "TxAccessListAccount"
          /\ ops[9 + i].addr = i
    /\ \A i \in 19..(k - 1) :
          ops[i].rw = "WRITE" /\ ops[i].tag = "TxAccessListAccount"
    /\ ops[19].addr = tx.caller_address
    /\ ops[20].addr = tx.address
    /\ Is(ops[k], "READ", "Account", "CodeHash") /\ ops[k].addr = tx.address
    /\ FirstCodeHashRead(ops) = k
    /\ \A i \in 1..Len(ops) : Is(ops[i], "WRITE", "Account", "Balance") => i > k
    /\ Ok(state') =>
          /\ Len(ops) > k
          /\ Is(ops[k + 1], "WRITE", "Account", "Balance")
          /\ ops[k + 1].addr = tx.caller_address

C3_BeginTx ==
    pc = "BeginTx" /\ ~tx.is_l1_msg =>
        /\ C3_Order(NewOps, 21 + B2N(blk.shanghai))
        /\ ~blk.shanghai => FirstCodeHashRead(NewOps) - 1 = 20

\* C3: for a transaction that is not an L1 message, BeginTx appends, in this
\* order, the three fee-oracle reads (base fee, overhead, scalar), the L1Fee
\* write, the writes of TxId, RwCounterEndOfReversion, IsPersistent and
\* IsSuccess, the sender's nonce write, the access-list writes of 1..9 in
\* ascending order, those of the sender and the recipient, the read of the
\* recipient's code hash, and only then the balance writes of the transfer;
\* without the Shanghai rule 20 operations precede the code-hash read.
C3_Theorem == [][C3_BeginTx]_vars

\* After the BeginTx of a value transfer without the Shanghai rule.
C3_Witness ==
    /\ pc \in {"Steps", "EndTx"} /\ ~tx.is_l1_msg /\ ~blk.shanghai /\ tx.value > 0
    /\ \E i \in 1..Len(Log) :
          /\ Log[i].kind = "BeginTx" /\ Log[i].tx_id = tx.tx_id
          /\ Is(Log[i], "WRITE", "Account", "Balance") /\ Log[i].addr = tx.address

\* The ledger as its readers see it: account fields (the code hash of an
\* empty account reads as zero), storage, access-list membership and the
\* refund counter.
LedgerView(sdb) ==
    [accounts |-> [a \in Addrs |->
                     [nonce |-> sdb.state[a].nonce, balance |-> sdb.state[a].balance,
                      code_hash |-> code_hash_read(sdb.state[a]),
                      storage |-> sdb.state[a].storage]],
     access_list |-> sdb.access_list, refund |-> sdb.refund]

\* The ledger `sdb` after the writes of log[i..n] that are neither
\* registered as reversible nor replays.
RECURSIVE ApplyPlain(_, _, _, _)
ApplyPlain(sdb, log, i, n) ==
    IF i > n THEN sdb
    ELSE ApplyPlain(IF log[i].rw = "WRITE" /\ ~log[i].reversible /\ ~log[i].reversal
                    THEN apply_op(sdb, log[i]) ELSE sdb,
                    log, i + 1, n)

Replayed == ghost.check.active /\ ghost.check.replayed

OnlyNonceKept(now, entry, sender) ==
    /\ now.access_list = entry.access_list /\ now.refund = entry.refund
    /\ \A a \in Addrs \ {sender} : now.accounts[a] = entry.accounts[a]
    /\ now.accounts[sender].nonce = entry.accounts[sender].nonce + 1
    /\ now.accounts[sender].balance = entry.accounts[sender].balance
    /\ now.accounts[sender].storage = entry.accounts[sender].storage
    /\ \/ now.accounts[sender].code_hash = entry.accounts[sender].code_hash
       \/ /\ entry.accounts[sender].code_hash = ZeroHash
          /\ now.accounts[sender].code_hash = empty_code_hash

IsWarming(e) == e.tag = "TxAccessListAccount" /\ ~e.reversal

\* BeginTx replayed the root call: a precompile call that fails.
RevertedAtOnce == state'.reverted > state.reverted

WarmedBefore(ops, i) ==
    \/ ops[i].addr \in state.sdb.access_list
    \/ \E j \in 1..(i - 1) : IsWarming(ops[j]) /\ ops[j].addr = ops[i].addr

C5_BeginTx ==
    pc = "BeginTx" =>
        /\ \A i \in 1..Len(NewOps) :
              IsWarming(NewOps[i]) =>
                  /\ NewOps[i].rw = "WRITE" /\ NewOps[i].value = 1
                  /\ NewOps[i].prev = B2N(WarmedBefore(NewOps, i))
        /\ ~RevertedAtOnce =>
              state'.sdb.access_list =
                  state.sdb.access_list
                    \cup {NewOps[i].addr :
                             i \in {j \in 1..Len(NewOps) : IsWarming(NewOps[j])}}
        /\ \A a \in {NewOps[i].addr : i \in {j \in 1..Len(NewOps) : IsWarming(NewOps[j])}}
                    \ state.sdb.access_list :
              Cardinality({i \in 1..Len(NewOps) :
                              /\ IsWarming(NewOps[i]) /\ NewOps[i].addr = a
                              /\ NewOps[i].prev = 0}) = 1

\* C5: every access-list write of BeginTx has is_warm = true and records as
\* is_warm_prev the membership of the address just before the write: false
\* for a cold address, which becomes a member exactly once, true for an
\* address already a member (the sender equal to the recipient, or one of
\* them among the addresses 1..9), whose membership does not change.
C5_Theorem == [][C5_BeginTx]_vars

\* After the BeginTx of a transaction whose sender is its recipient: the
\* second write of the address records is_warm_prev = true.
C5_Witness ==
    /\ pc \in {"Steps", "EndTx"} /\ tx.caller_address = tx.address
    /\ \E i \in 1..Len(Log) :
          /\ Log[i].kind = "BeginTx" /\ Log[i].tx_id = tx.tx_id
          /\ IsWarming(Log[i]) /\ Log[i].addr = tx.address
          /\ Log[i].value = 1 /\ Log[i].prev = 1

\* min(refund, gas_used / 5), written out.
CappedRefund(refund, gas, gas_left) ==
    IF refund <= (gas - gas_left) \div 5 THEN refund ELSE (gas - gas_left) \div 5

C6_Function ==
    \A refund \in 0..(2 * MaxRefund), gas_left \in 0..MaxGas :
        LET t == [tx EXCEPT !.gas_left = gas_left]
            r == effective_refund(refund, t)
        IN  /\ r = CappedRefund(refund, t.gas, gas_left)
            /\ r <= (t.gas - gas_left) \div 5
            /\ r <= refund
            /\ (t.gas - gas_left) - r >= 0
            /\ end_tx_gas_cost(refund, t) = (t.gas - gas_left) - r

C6_EndTx ==
    pc = "EndTx" /\ Ok(state') =>
        /\ \E i \in 1..Len(NewOps) :
              /\ NewOps[i].rw = "READ" /\ NewOps[i].tag = "TxRefund"
              /\ NewOps[i].value = state.sdb.refund
              /\ ~tx.is_l1_msg =>
                    /\ Is(NewOps[i + 1], "WRITE", "Account", "Balance")
                    /\ NewOps[i + 1].addr = tx.caller_address
                    /\ NewOps[i + 1].value - NewOps[i + 1].prev =
                          tx.gas_price
                            * (tx'.gas_left
                                 + CappedRefund(state.sdb.refund, tx.gas, tx'.gas_left))
        /\ state'.sdb.refund = state.sdb.refund

\* C6: the effective refund of EndTx is min(accumulated refund,
\* gas_used / 5) with gas_used = gas limit - gas left and integer division;
\* it exceeds neither gas_used / 5 nor the accumulated refund, so
\* gas_used - effective refund is never negative; EndTx reads the
\* accumulated refund and credits the sender gas_price * (gas left +
\* effective refund).
C6_Theorem == [](C6_Function) /\ [][C6_EndTx]_vars

\* After an EndTx whose accumulated refund exceeded a positive cap.
C6_Witness ==
    /\ pc = "Done" /\ tx.gas_price > 0
    /\ (tx.gas - tx.gas_left) \div 5 > 0
    /\ state.sdb.refund > (tx.gas - tx.gas_left) \div 5
    /\ \E i \in 1..Len(Log) :
          /\ Log[i].kind = "EndTx" /\ Log[i].rw = "READ" /\ Log[i].tag = "TxRefund"
          /\ Log[i].value = state.sdb.refund

IsCumulative(e, rw) == Is(e, rw, "TxReceipt", "CumulativeGasUsed")

\* The cumulative gas written for transaction k; zero before the block.
CumulativeOf(log, k) ==
    IF \E i \in 1..Len(log) : IsCumulative(log[i], "WRITE") /\ log[i].id = k
    THEN log[CHOOSE i \in 1..Len(log) :
                 IsCumulative(log[i], "WRITE") /\ log[i].id = k].value
    ELSE 0

C7_EndTx ==
    pc = "EndTx" /\ Ok(state') =>
        LET writes == {i \in 1..Len(NewOps) : IsCumulative(NewOps[i], "WRITE")}
            reads == {i \in 1..Len(NewOps) : IsCumulative(NewOps[i], "READ")}
        IN  /\ Cardinality(writes) = 1
            /\ \A w \in writes :
                  /\ NewOps[w].id = tx.tx_id
                  /\ NewOps[w].value =
                        CumulativeOf(Log, tx.tx_id - 1) + (tx.gas - tx'.gas_left)
                  /\ \A r \in reads : r < w
            /\ tx.tx_id = 1 => reads = {}
            /\ tx.tx_id > 1 =>
                  /\ Cardinality(reads) = 1
                  /\ \E i \in 1..Len(Log) :
                        IsCumulative(Log[i], "WRITE") /\ Log[i].id = tx.tx_id - 1
                  /\ \A r \in reads :
                        /\ NewOps[r].id = tx.tx_id - 1
                        /\ NewOps[r].value = CumulativeOf(Log, tx.tx_id - 1)

\* C7: EndTx of transaction k writes as CumulativeGasUsed the value written
\* for transaction k-1 plus gas limit - gas left of k; EndTx of transaction
\* 1 reads no previous cumulative value; EndTx of a later transaction reads
\* the CumulativeGasUsed of k-1 exactly once, with the value written for
\* k-1, before its own write.
C7_Theorem == [][C7_EndTx]_vars

\* A finished block whose second transaction read a positive cumulative
\* value of the first and used gas itself.
C7_Witness ==
    /\ pc = "Done" /\ tx.tx_id = 2 /\ tx.gas - tx.gas_left > 0
    /\ \E i \in 1..Len(Log) :
          /\ IsCumulative(Log[i], "READ") /\ Log[i].tx_id = 2 /\ Log[i].id = 1
          /\ Log[i].value > 0
    /\ CumulativeOf(Log, 2) > CumulativeOf(Log, 1)

\* The target of a creation holds code or a nonce.
Collides(sdb, t) ==
    /\ t.is_create
    /\ \/ get_account(sdb, t.address).code_hash \notin {ZeroHash, empty_code_hash}
       \/ get_account(sdb, t.address).nonce # 0

\* The call-context fields BeginTx writes before it looks at the callee.
EarlyFields == {"L1Fee", "TxId", "RwCounterEndOfReversion", "IsPersistent", "IsSuccess"}

C8_BeginTx ==
    pc = "BeginTx" /\ Collides(state.sdb, tx) =>
        /\ ~Ok(state') /\ pc' = "Failed"
        /\ \A i \in 1..Len(NewOps) :
              /\ ~Is(NewOps[i], "WRITE", "Account", "Balance")
              /\ NewOps[i].tag = "CallContext" => NewOps[i].field \in EarlyFields
              /\ NewOps[i].reversible => IsWarming(NewOps[i])
        /\ \A a \in Addrs :
              get_account(state'.sdb, a).balance = get_account(state.sdb, a).balance
        /\ get_account(state'.sdb, tx.address).nonce = get_account(state.sdb, tx.address).nonce
        /\ state'.sha3_inputs = state.sha3_inputs
        /\ state'.copy_events = state.copy_events
        /\ state'.tx_steps = state.tx_steps

\* C8: BeginTx of a creation transaction whose target address holds a code
\* hash that is neither zero nor the empty-code hash, or a non-zero nonce,
\* aborts: it transfers neither value nor fee, registers no hashing input
\* and no CopyEvent, writes no call-context field of the frame, and appends
\* no BeginTx step to the steps of the transaction.
C8_Theorem == [][C8_BeginTx]_vars

\* The builder stopped in the BeginTx of a creation whose target holds a
\* nonce, after the read of the target's code hash.
C8_Witness ==
    /\ pc = "Failed" /\ ~Ok(state) /\ state.exec_step.kind = "BeginTx"
    /\ Collides(state.sdb, tx) /\ get_account(state.sdb, tx.address).nonce # 0
    /\ Len(Log) > 0 /\ Is(Log[Len(Log)], "READ", "Account", "CodeHash")
    /\ Log[Len(Log)].addr = tx.address

\* C9 as stated: whatever fatal condition BeginTx, EndTx or the dispatch of
\* a step detects, the builder ends with a typed error value (here the
\* missing ledger entry, with its address) and never stops abruptly.
C9_TypedErrors == state.result \in {"Ok", "AccountNotFound"}

\* The entries of the log a step produced.
OpsOf(step) ==
    {i \in 1..Len(Log) :
        /\ Log[i].tx_id = step.tx_id /\ Log[i].kind = step.kind
        /\ Log[i].index = step.index}

\* An entry by which a frame unwinds: the replay of a reversible write, or
\* a read that restores the context of the caller.
Unwinds(e) ==
    \/ e.reversal
    \/ /\ e.rw = "READ" /\ e.tag = "CallContext"
       /\ e.field \in {"IsSuccess", "RwCounterEndOfReversion", "CallerId",
                       "ProgramCounter", "StackPointer", "GasLeft"}

IsPop(e) == e.rw = "READ" /\ e.tag = "Stack"

OogCallStep(step) ==
    step.kind = "Step" /\ step.error = "OutOfGas.Call" /\ step.op \in CallOps

\* C10: a step that fails out of gas on a call-family opcode has exactly 7
\* stack-pop reads in the log when the opcode is CALL or CALLCODE and
\* exactly 6 when it is DELEGATECALL or STATICCALL, all of them before the
\* entries by which the frame unwinds.
C10_Theorem ==
    \A k \in 1..Len(state.tx_steps) :
        OogCallStep(state.tx_steps[k]) =>
            LET ops == OpsOf(state.tx_steps[k])
                pops == {i \in ops : IsPop(Log[i])}
            IN  /\ Cardinality(pops) =
                      IF state.tx_steps[k].op \in {"CALL", "CALLCODE"} THEN 7 ELSE 6
                /\ \A i \in pops, j \in ops : Unwinds(Log[j]) => i < j
                /\ \E j \in ops : Unwinds(Log[j])

\* The steps hold an out-of-gas DELEGATECALL or STATICCALL whose six pops
\* are in the log and whose frame replayed a reversible write.
C10_Witness ==
    \E k \in 1..Len(state.tx_steps) :
        /\ OogCallStep(state.tx_steps[k])
        /\ state.tx_steps[k].op \in {"DELEGATECALL", "STATICCALL"}
        /\ Cardinality({i \in OpsOf(state.tx_steps[k]) : IsPop(Log[i])}) = 6
        /\ \E j \in OpsOf(state.tx_steps[k]) : Log[j].reversal

\* The events of the last dispatch.
Dispatched(e) == \E i \in 1..Len(state.events) : state.events[i] = e

\* C11: when the dispatch of a step found a declared error, the first step
\* it returned carries exactly that error, and so does the step handed to
\* the transaction's steps, whether a specialized handler or the fallback
\* produced it and whether or not the handler set the field itself.
C11_Theorem ==
    Ok(state) /\ state.exec_error # "None" =>
        /\ state.returned # <<>>
        /\ state.returned[1].error = state.exec_error
        /\ Dispatched("error_handler") \/ Dispatched("handle_return")
        /\ \E k \in 1..Len(state.tx_steps) :
              /\ state.tx_steps[k] = state.returned[1]
              /\ state.tx_steps[k].kind = "Step"
              /\ state.tx_steps[k].tx_id = state.exec_step.tx_id

\* A specialized handler returned a step whose error field it had left
\* unset, after the fallback had produced an earlier step of the trace.
C11_Witness ==
    /\ Ok(state) /\ state.exec_error # "None" /\ Dispatched("error_handler")
    /\ state.exec_step.kind = "Step" /\ state.exec_step.error = "None"
    /\ state.returned # <<>> /\ state.returned[1].error = state.exec_error
    /\ \E k \in 1..Len(state.tx_steps) :
          /\ state.tx_steps[k].error = "OutOfGas.Precompile"
          /\ state.tx_steps[k].index < state.exec_step.index

\* The last dispatch of state' found a declared error that has no
\* specialized handler.
Unclassified ==
    /\ pc = "Steps" /\ Ok(state') /\ state'.exec_error # "None"
    /\ state'.returned # <<>>
    /\ fn_gen_error_state_associated_ops(state'.returned[1].op, state'.exec_error)
          = NoHandler

\* The need_restore flag of the last frame that returned.
LastRestore(s) == s.restored[Len(s.restored)]

C12_Fallback ==
    Unclassified =>
        /\ Len(state'.returned) = 1
        /\ Len(state'.restored) = Len(state.restored) + 1
        /\ IF state'.returned[1].op \in CallOps \cup CreateOps
           THEN /\ state'.events = <<"new_step", "get_step_err", "parse_call",
                                     "push_call", "handle_return">>
                /\ state'.calls = state.calls
           ELSE /\ state'.events = <<"new_step", "get_step_err", "handle_return">>
                /\ state'.calls = SubSeq(state.calls, 1, Len(state.calls) - 1)
                /\ LastRestore(state')

\* C12: for a declared error without specialized handler, a failing call
\* or create has its child frame parsed and pushed before the return
\* handling runs (which then returns that child); any other opcode has the
\* return handling run on the current frame with the caller restored; in
\* both cases one step is returned and no opcode handler is invoked.
C12_Theorem == [][C12_Fallback]_vars

\* The fallback returned the current frame on a failing ADD, after it had
\* pushed and returned a child frame on a failing CALL.
C12_Witness ==
    /\ Ok(state) /\ state.exec_error = "GasUintOverflow"
    /\ state.events = <<"new_step", "get_step_err", "handle_return">>
    /\ Len(state.returned) = 1 /\ state.calls = <<>>
    /\ \E k \in 1..Len(state.tx_steps) :
          state.tx_steps[k].error = "OutOfGas.Precompile" /\ state.tx_steps[k].op = "CALL"

CallerFields == {"CallerId", "ProgramCounter", "StackPointer", "GasLeft"}

\* The caller-restore operations among the operations the action appended.
RestoreOps ==
    {i \in 1..Len(NewOps) :
        /\ NewOps[i].rw = "READ" /\ NewOps[i].tag = "CallContext"
        /\ NewOps[i].field \in CallerFields}

\* The action returned exactly one frame.
ReturnedOne ==
    /\ pc = "Steps" /\ Ok(state')
    /\ Len(state'.restored) = Len(state.restored) + 1

\* The frame the action returned was entered by a call (it has a caller).
ReturnedChild ==
    \/ Len(state'.calls) = Len(state.calls)
    \/ Len(state.calls) > 1

C13_Restore ==
    /\ ReturnedOne =>
          IF LastRestore(state') /\ ReturnedChild
          THEN {NewOps[i].field : i \in RestoreOps} = CallerFields
          ELSE RestoreOps = {}
    /\ Unclassified =>
          /\ ~LastRestore(state') <=>
                state'.returned[1].op \in CallOps \cup CreateOps
          /\ ~LastRestore(state') <=>
                \E i \in 1..Len(state'.events) : state'.events[i] = "push_call"

\* C13: when a frame returns, the caller-restore call-context operations
\* are appended unless need_restore is false; in the dispatch fallback
\* need_restore is false exactly when the failing opcode is a call or
\* create whose frame was parsed and pushed, and true for every other
\* unclassified error.
C13_Theorem == [][C13_Restore]_vars

\* The fallback returned the current frame with need_restore true and the
\* restore reads of a failed frame, after it had returned the pushed frame
\* of a failing CALL with need_restore false.
C13_Witness ==
    /\ Ok(state) /\ state.exec_error = "GasUintOverflow"
    /\ Len(state.restored) >= 2 /\ LastRestore(state)
    /\ ~state.restored[Len(state.restored) - 1]
    /\ \E i \in 1..Len(Log) :
          /\ Log[i].rw = "READ" /\ Log[i].tag = "CallContext"
          /\ Log[i].field = "RwCounterEndOfReversion"
          /\ Log[i].index = state.exec_step.index /\ Log[i].kind = "Step"
    /\ \E k \in 1..Len(state.tx_steps) :
          state.tx_steps[k].error = "OutOfGas.Precompile"

\* The dispatch that led to state' found a declared error without
\* specialized handler, whether or not it went through.
Unhandled ==
    /\ pc = "Steps" /\ state'.exec_error # "None"
    /\ state'.exec_step.kind = "Step"
    /\ fn_gen_error_state_associated_ops(state'.exec_step.op, state'.exec_error)
          = NoHandler

C14_NoOperations ==
    Unhandled =>
        /\ Ok(state')
        /\ state'.container = state.container
        /\ state'.rwc = state.rwc

\* C14 as stated: a declared error without registered handler produces no
\* operations; the log and its counter are after the step as they were
\* before it, and the builder does not crash.
C14_Original == [][C14_NoOperations]_vars

C14_OnlyUnwinding ==
    Unhandled =>
        /\ Ok(state')
        /\ Len(state'.returned) = 1
        /\ state'.rwc = state.rwc + Len(NewOps)
        /\ \A i \in 1..Len(NewOps) : Unwinds(NewOps[i])
        /\ ~state'.returned[1].op \in CallOps \cup CreateOps
           /\ ~state.calls[Len(state.calls)].is_success =>
              \E i \in 1..Len(NewOps) :
                  NewOps[i].rw = "READ" /\ NewOps[i].field = "IsSuccess"

\* C14: a declared error without registered handler produces no operation
\* of a handler: the step returned for it covers only the operations of
\* the return handling (the restore reads of the failed frame, the
\* caller-restore reads, the replay of the frame's reversible writes), the
\* counter advances by their number, and the builder does not crash.
C14_Theorem == [][C14_OnlyUnwinding]_vars

\* The fallback returned a failed child frame: the log got the restore
\* reads and the replay of a reversible write, and nothing else.
C14_Witness ==
    /\ Ok(state) /\ pc = "Steps" /\ state.exec_error = "GasUintOverflow"
    /\ state.exec_step.kind = "Step"
    /\ \E i, j \in 1..Len(Log) :
          /\ Log[i].kind = "Step" /\ Log[i].index = state.exec_step.index
          /\ Log[i].rw = "READ" /\ Log[i].field = "CallerId"
          /\ Log[j].kind = "Step" /\ Log[j].index = state.exec_step.index
          /\ Log[j].tx_id = Log[i].tx_id /\ Log[j].rw = "READ"
          /\ Log[j].field = "IsSuccess"

\* What EndTx adds to the balance of the fee recipient.
CoinbaseGain ==
    get_account(state'.sdb, blk.coinbase).balance
      - get_account(state.sdb, blk.coinbase).balance

\* The balance writes of the fee recipient among the appended operations.
CoinbaseWrites ==
    {i \in 1..Len(NewOps) :
        Is(NewOps[i], "WRITE", "Account", "Balance") /\ NewOps[i].addr = blk.coinbase}

C15_GrossReward ==
    pc = "EndTx" /\ Ok(state') =>
        CoinbaseGain =
            IF tx.is_l1_msg THEN 0
            ELSE (tx.gas_price - blk.base_fee) * (tx.gas - tx'.gas_left) + tx.l1_fee

\* C15 as stated: the reward EndTx transfers to the fee recipient is
\* (gas_price - base_fee) * gas_used + fee with gas_used = gas limit - gas
\* left, and zero for a privileged message.
C15_Original == [][C15_GrossReward]_vars

\* (gas_price - base_fee) * (gas_used - effective refund) + fee
NetReward(refund, gas_left) ==
    IF tx.is_l1_msg THEN 0
    ELSE (tx.gas_price - blk.base_fee)
           * ((tx.gas - gas_left) - CappedRefund(refund, tx.gas, gas_left))
         + tx.l1_fee

C15_NetReward ==
    pc = "EndTx" =>
        /\ tx.gas_price < blk.base_fee => ~Ok(state') /\ state'.result = "Panic"
        /\ Ok(state') =>
              /\ coinbase_reward(state.sdb.refund, tx', blk)
                    = NetReward(state.sdb.refund, tx'.gas_left)
              /\ CoinbaseGain = NetReward(state.sdb.refund, tx'.gas_left)
              /\ NetReward(state.sdb.refund, tx'.gas_left) = 0 => CoinbaseWrites = {}
              /\ NetReward(state.sdb.refund, tx'.gas_left) > 0 =>
                    /\ Cardinality(CoinbaseWrites) = 1
                    /\ \A i \in CoinbaseWrites :
                          /\ NewOps[i].value - NewOps[i].prev
                                = NetReward(state.sdb.refund, tx'.gas_left)
                          /\ ~NewOps[i].reversible

\* C15: when the gas price is not below the base fee, EndTx transfers to
\* the fee recipient (gas_price - base_fee) * (gas_used - effective refund)
\* + L1 fee for a transaction that is not a privileged message, with
\* gas_used = gas limit - gas left, and nothing for a privileged message;
\* when the base fee exceeds the gas price, EndTx stops abruptly at the
\* subtraction, for a privileged message too.
C15_Theorem == [][C15_NetReward]_vars

\* A finished transaction whose effective refund was positive and whose
\* fee recipient was paid for the gas net of it.
C15_Witness ==
    /\ pc = "Done" /\ ~tx.is_l1_msg /\ tx.gas_price > blk.base_fee
    /\ CappedRefund(state.sdb.refund, tx.gas, tx.gas_left) > 0
    /\ \E i \in 1..Len(Log) :
          /\ Log[i].kind = "EndTx" /\ Log[i].tx_id = tx.tx_id
          /\ Is(Log[i], "WRITE", "Account", "Balance") /\ Log[i].addr = blk.coinbase
          /\ Log[i].value - Log[i].prev =
                (tx.gas_price - blk.base_fee)
                  * ((tx.gas - tx.gas_left)
                       - CappedRefund(state.sdb.refund, tx.gas, tx.gas_left))
                + tx.l1_fee

\* A value transfer without calldata between two externally owned
\* accounts, with gas price zero.
SimpleTransfer ==
    /\ ~tx.is_create /\ ~tx.is_l1_msg /\ tx.input_len = 0 /\ tx.gas_price = 0
    /\ tx.value > 0 /\ tx.caller_address # tx.address
    /\ ~is_precompiled(tx.address) /\ ~is_precompiled(tx.caller_address)
    /\ is_empty_or_zero(get_account(state.sdb, tx.address).code_hash)

C16_EndTx ==
    pc = "EndTx" /\ SimpleTransfer =>
        /\ Ok(state')
        /\ effective_refund(state.sdb.refund, tx') = 0
        /\ coinbase_reward(state.sdb.refund, tx', blk) = 0
        /\ CoinbaseGain = 0

\* C16 as stated: for a simple value transfer between two externally owned
\* accounts with gas price zero, EndTx completes with an effective refund
\* of zero and a coinbase reward of zero, whatever the base fee of the
\* block and the L1 fee of the transaction are.
C16_ZeroReward == [][C16_EndTx]_vars

\* The call-context writes of the frame among the appended operations:
\* those of fields other than the five BeginTx writes first.
FrameWrites ==
    {i \in 1..Len(NewOps) :
        /\ NewOps[i].rw = "WRITE" /\ NewOps[i].tag = "CallContext"
        /\ NewOps[i].field \notin EarlyFields}

\* A BeginTx that goes through, of a non-creation transaction to a
\* recipient that is no precompile.
PlainCall ==
    /\ pc = "BeginTx" /\ Ok(state') /\ ~tx.is_create /\ ~is_precompiled(tx.address)

HasNonEmptyCode(sdb, addr) ==
    ~is_empty_or_zero(get_account(sdb, addr).code_hash)

C17_ThreeWrites ==
    PlainCall =>
        Cardinality(FrameWrites) =
            IF HasNonEmptyCode(state.sdb, tx.address) THEN 3 ELSE 0

\* C17 as stated: BeginTx of a non-creation transaction to a recipient
\* that is no precompile emits 3 frame call-context writes after the
\* transfer when the recipient's code hash is non-empty, and none when it
\* is empty or zero.
C17_Original == [][C17_ThreeWrites]_vars

FrameFieldNames ==
    <<"Depth", "CallerAddress", "CalleeAddress", "CallDataOffset",
      "CallDataLength", "Value", "IsStatic", "LastCalleeId",
      "LastCalleeReturnDataOffset", "LastCalleeReturnDataLength", "IsRoot",
      "IsCreate", "CodeHash">>

C17_FrameWrites ==
    PlainCall =>
        /\ \A i \in FrameWrites, j \in 1..Len(NewOps) :
              Is(NewOps[j], "WRITE", "Account", "Balance") => j < i
        /\ IF HasNonEmptyCode(state.sdb, tx.address)
           THEN /\ Cardinality(FrameWrites) = Len(FrameFieldNames)
                /\ \A k \in 1..Len(FrameFieldNames) :
                      /\ Len(NewOps) - Len(FrameFieldNames) + k \in FrameWrites
                      /\ NewOps[Len(NewOps) - Len(FrameFieldNames) + k].field
                            = FrameFieldNames[k]
           ELSE FrameWrites = {}

\* C17: BeginTx of a non-creation transaction to a recipient that is no
\* precompile emits, after the transfer, the 13 call-context writes of the
\* frame (Depth, CallerAddress, CalleeAddress, CallDataOffset,
\* CallDataLength, Value, IsStatic, LastCalleeId,
\* LastCalleeReturnDataOffset, LastCalleeReturnDataLength, IsRoot,
\* IsCreate, CodeHash, in this order) when the recipient's code hash is
\* non-empty, and none when it is empty or zero.
C17_Theorem == [][C17_FrameWrites]_vars

\* After the BeginTx of a value transfer to a contract: the balance writes
\* of the transfer are followed by the writes of the frame.
C17_Witness ==
    /\ pc = "Steps" /\ ~tx.is_create /\ tx.address = AddrContract /\ tx.value > 0
    /\ Len(Log) > Len(FrameFieldNames)
    /\ Log[Len(Log)].kind = "BeginTx"
    /\ Is(Log[Len(Log)], "WRITE", "CallContext", "CodeHash")
    /\ Is(Log[Len(Log) - Len(FrameFieldNames)], "WRITE", "Account", "Balance")

\* The first four operations of an EndTx that goes through: the reads of
\* TxId, IsPersistent and L1Fee in the root call's context, then the READ
\* of the refund entry.
C18_Reads ==
    /\ Len(NewOps) >= 4
    /\ Is(NewOps[1], "READ", "CallContext", "TxId")
    /\ Is(NewOps[2], "READ", "CallContext", "IsPersistent")
    /\ Is(NewOps[3], "READ", "CallContext", "L1Fee")
    /\ \A i \in 1..3 : NewOps[i].id = state.root_call.call_id
    /\ NewOps[1].value = tx.tx_id /\ NewOps[3].value = tx.l1_fee
    /\ NewOps[4].rw = "READ" /\ NewOps[4].tag = "TxRefund"
    /\ NewOps[4].id = tx.tx_id
    /\ NewOps[4].value = state.sdb.refund /\ NewOps[4].prev = state.sdb.refund

C18_ReadThenWrite ==
    pc = "EndTx" /\ Ok(state') =>
        /\ C18_Reads
        /\ Len(NewOps) >= 5
        /\ NewOps[5].rw = "WRITE" /\ NewOps[5].tag = "TxRefund"

\* C18 as stated: after the three call-context READs (TxId, IsPersistent,
\* L1Fee) EndTx appends a READ and then a WRITE of the refund entry.
C18_Original == [][C18_ReadThenWrite]_vars

C18_ReadOnly ==
    pc = "EndTx" /\ Ok(state') =>
        /\ C18_Reads
        /\ \A i \in 1..Len(NewOps) :
              NewOps[i].tag = "TxRefund" => i = 4
        /\ state'.sdb.refund = state.sdb.refund

\* C18: EndTx only reads the refund counter: after the three call-context
\* READs (TxId, IsPersistent, L1Fee) it appends one READ of the refund
\* entry, whose value and previous value are the accumulated refund; it
\* appends no WRITE of the refund entry and leaves the counter as it is.
C18_Theorem == [][C18_ReadOnly]_vars

\* After an EndTx that read a positive accumulated refund.
C18_Witness ==
    /\ pc = "Done" /\ state.sdb.refund > 0
    /\ \E i \in 4..Len(Log) :
          /\ Log[i].kind = "EndTx" /\ Log[i].tx_id = tx.tx_id
          /\ Log[i].rw = "READ" /\ Log[i].tag = "TxRefund"
          /\ Log[i].value = state.sdb.refund
          /\ Is(Log[i - 1], "READ", "CallContext", "L1Fee")

\* The fee of an L1 message is zero whatever its gas price and L1 fee.
C19_Fee ==
    \A gas_price \in 0..MaxWord, l1_fee \in 0..MaxWord :
        begin_tx_fee([tx EXCEPT !.is_l1_msg = TRUE, !.gas_price = gas_price,
                                !.l1_fee = l1_fee]) = 0

\* The plain writes that create the caller: the code hash, and in a scroll
\* build the keccak code hash.
CreationFields == IF blk.scroll THEN <<"CodeHash", "KeccakCodeHash">> ELSE <<"CodeHash">>

C19_Creation(n) ==
    /\ Len(NewOps) >= 1 + n
    /\ \A k \in 1..n :
          /\ Is(NewOps[1 + k], "WRITE", "Account", CreationFields[k])
          /\ NewOps[1 + k].addr = tx.caller_address
          /\ NewOps[1 + k].prev = 0
          /\ ~NewOps[1 + k].reversible

C19_BeginTx ==
    pc = "BeginTx" /\ tx.is_l1_msg /\ Ok(state') =>
        /\ \A i \in 1..Len(NewOps) : NewOps[i].tag # "Storage"
        /\ Is(NewOps[1], "READ", "Account", "CodeHash")
        /\ NewOps[1].addr = tx.caller_address
        /\ NewOps[1].value = code_hash_read(get_account(state.sdb, tx.caller_address))
        /\ IF is_empty(get_account(state.sdb, tx.caller_address))
           THEN /\ C19_Creation(Len(CreationFields))
                /\ Is(NewOps[2 + Len(CreationFields)], "WRITE", "CallContext", "L1Fee")
           ELSE Is(NewOps[2], "WRITE", "CallContext", "L1Fee")
        /\ \A i \in 1..Len(NewOps) :
              /\ Is(NewOps[i], "WRITE", "Account", "Balance")
              /\ NewOps[i].addr = tx.caller_address
              /\ NewOps[i].value < NewOps[i].prev
              => NewOps[i].prev - NewOps[i].value = tx.value

\* C19: BeginTx of an L1 message emits no fee-oracle reads; it first reads
\* the sender's code hash; only if the sender account is empty the read is
\* followed by the writes that create the account, which are not
\* reversible and carry the previous value zero; if the sender is not
\* empty no write follows the read; the L1Fee call-context write comes
\* next in both cases; the fee added to the transfer is zero, so the
\* sender is debited the value only.
C19_Theorem == [](C19_Fee) /\ [][C19_BeginTx]_vars

\* After the BeginTx of an L1 message that created its sender, and of a
\* later L1 message of the same block whose sender was not empty.
C19_Witness ==
    /\ pc \in {"Steps", "EndTx"} /\ tx.is_l1_msg /\ tx.tx_id = 2
    /\ Is(Log[2], "WRITE", "Account", "CodeHash")
    /\ Log[2].kind = "BeginTx" /\ Log[2].tx_id = 1 /\ ~Log[2].reversible
    /\ \E i \in 2..Len(Log) :
          /\ Log[i].kind = "BeginTx" /\ Log[i].tx_id = 2
          /\ Is(Log[i], "WRITE", "CallContext", "L1Fee")
          /\ Is(Log[i - 1], "READ", "Account", "CodeHash")

\* e pre-writes the id of the transaction after the current one.
IsNextTxId(e) ==
    Is(e, "WRITE", "CallContext", "TxId") /\ e.value = tx.tx_id + 1

C20_EndTx ==
    pc = "EndTx" /\ Ok(state') =>
        /\ Len(NewOps) > 0
        /\ IsNextTxId(NewOps[Len(NewOps)]) <=> ~tx.is_last_tx
        /\ ~tx.is_last_tx =>
              /\ NewOps[Len(NewOps)].rwc = state'.rwc - 1
              /\ NewOps[Len(NewOps)].id = NewOps[Len(NewOps)].rwc + 1
        /\ tx.is_last_tx =>
              \A i \in 1..Len(NewOps) : NewOps[i].tag = "CallContext" =>
                                            NewOps[i].rw = "READ"

\* The transaction after an EndTx starts at the call id EndTx wrote to, and
\* its BeginTx writes its TxId there again.
C20_NextTx ==
    /\ pc = "NewTx" /\ Len(Log) > 0 =>
          /\ Log[Len(Log)].kind = "EndTx"
          /\ state'.root_call.call_id = Log[Len(Log)].id
          /\ tx'.tx_id = Log[Len(Log)].value
    /\ pc = "BeginTx" /\ Ok(state') /\ tx.tx_id > 1 =>
          \E i \in 1..Len(NewOps) :
              /\ Is(NewOps[i], "WRITE", "CallContext", "TxId")
              /\ NewOps[i].id = Log[Len(Log)].id
              /\ NewOps[i].value = Log[Len(Log)].value

\* C20: the last operation of EndTx is a call-context WRITE of TxId =
\* transaction id + 1 if and only if the transaction is not the last of the
\* block; the write targets the call id that is the rw counter before the
\* write plus one, which is the call id the next transaction's BeginTx
\* starts from; EndTx of the last transaction writes no call-context field.
C20_Theorem == [][C20_EndTx /\ C20_NextTx]_vars

\* The second transaction of a block has begun at the call id the first
\* one's EndTx wrote the TxId 2 to.
C20_Witness ==
    /\ pc \in {"Steps", "EndTx"} /\ tx.tx_id = 2
    /\ \E i \in 1..Len(Log) :
          /\ Log[i].kind = "EndTx" /\ Log[i].tx_id = 1
          /\ Is(Log[i], "WRITE", "CallContext", "TxId") /\ Log[i].value = 2
          /\ Log[i].id = Log[i].rwc + 1
          /\ state.root_call.call_id = Log[i].id
          /\ Log[i + 1].kind = "BeginTx" /\ Log[i + 1].tx_id = 2

\* The addresses of the access-list writes among the appended operations,
\* in the order of the writes.
RECURSIVE WarmedAddresses(_, _)
WarmedAddresses(ops, i) ==
    IF i > Len(ops) THEN <<>>
    ELSE IF IsWarming(ops[i]) THEN <<ops[i].addr>> \o WarmedAddresses(ops, i + 1)
    ELSE WarmedAddresses(ops, i + 1)

C21_Reversible ==
    pc = "BeginTx" /\ Ok(state') =>
        /\ WarmedAddresses(NewOps, 1) =
              precompile_addresses \o accessed_addresses(tx, blk)
        /\ \A i \in 1..Len(NewOps) :
              IsWarming(NewOps[i]) => NewOps[i].rw = "WRITE" /\ NewOps[i].reversible
        \* a root call that is not persistent has them in its reversion window
        /\ ~tx.is_success /\ ~RevertedAtOnce =>
              \A a \in {NewOps[i].addr : i \in {j \in 1..Len(NewOps) : IsWarming(NewOps[j])}} :
                  \E k \in 1..Len(state'.reversion_groups[1]) :
                      /\ state'.reversion_groups[1][k].tag = "TxAccessListAccount"
                      /\ state'.reversion_groups[1][k].addr = a

\* The replay of the root call leaves no address warm: the access list is
\* as the transaction found it, empty.
C21_Undone ==
    Replayed /\ ghost.check.is_root =>
        /\ state.sdb.access_list = ghost.check.entry.sdb.access_list
        /\ state.sdb.access_list = {}

\* C21: BeginTx emits the access-list writes of the nine precompile
\* addresses, the sender, the recipient and, under the post-fork rule, the
\* fee recipient, in this order, and every one of them is registered as a
\* reversible write: a reversion of the root call undoes the warming.
C21_Theorem == [](C21_Undone) /\ [][C21_Reversible]_vars

\* The root call of a transaction was reverted in a step: the recipient's
\* warming by BeginTx, a reversible write, was undone by a write of the
\* replay and the recipient is cold again.
C21_Witness ==
    /\ Replayed /\ ghost.check.is_root /\ tx.address \notin state.sdb.access_list
    /\ \E i, k \in 1..Len(Log) :
          /\ i < k
          /\ IsWarming(Log[i]) /\ Log[i].kind = "BeginTx" /\ Log[i].reversible
          /\ Log[i].tx_id = tx.tx_id /\ Log[i].addr = tx.address
          /\ Log[i].value = 1 /\ Log[i].prev = 0
          /\ Log[k].tag = "TxAccessListAccount" /\ Log[k].reversal
          /\ Log[k].kind = "Step" /\ Log[k].addr = tx.address
          /\ Log[k].value = 0 /\ Log[k].prev = 1

\* The nonce writes of BeginTx on address a in a sequence of operations.
SenderNonceWrites(ops, a) ==
    {i \in 1..Len(ops) :
        /\ Is(ops[i], "WRITE", "Account", "Nonce") /\ ops[i].kind = "BeginTx"
        /\ ops[i].addr = a /\ ~ops[i].reversible /\ ~ops[i].reversal}

C22_BeginTx ==
    pc = "BeginTx" /\ Ok(state') =>
        /\ Cardinality({i \in 1..Len(NewOps) :
                           /\ Is(NewOps[i], "WRITE", "Account", "Nonce")
                           /\ NewOps[i].addr = tx.caller_address}) = 1
        /\ \A i \in 1..Len(NewOps) :
              Is(NewOps[i], "WRITE", "Account", "Nonce")
                /\ NewOps[i].addr = tx.caller_address
              => /\ NewOps[i].prev = get_nonce(state.sdb, tx.caller_address)
                 /\ NewOps[i].value = NewOps[i].prev + 1
                 /\ ~NewOps[i].reversible
        /\ get_nonce(state'.sdb, tx.caller_address) =
              get_nonce(state.sdb, tx.caller_address) + 1

\* The senders of the transactions drawn, whose nonce at the start of the
\* block is the same in every ledger the block starts from.
Senders == {AddrA, 1, AddrB}

C22_Nonces ==
    Ok(state) =>
        \A a \in Senders :
            get_nonce(state.sdb, a) =
                InitialAccount(a, "plain").nonce
                  + Cardinality(SenderNonceWrites(Log, a))

C22_Counted ==
    pc \in {"NewTx", "Done"} /\ Ok(state) =>
        Cardinality(UNION {SenderNonceWrites(Log, a) : a \in Senders}) =
            IF state.exec_step.kind = "None" THEN 0 ELSE tx.tx_id

\* C22: BeginTx emits exactly one nonce write of the sender, with value =
\* previous nonce + 1 and the ledger's nonce before the write as previous
\* value; the write is not registered as reversible, so after k
\* transactions from one sender, whether their root calls persist or
\* revert, the sender's nonce is its initial nonce + k.
C22_Theorem == [](C22_Nonces /\ C22_Counted) /\ [][C22_BeginTx]_vars

\* A block of two transactions from one sender is done, the root call of
\* one was reverted, and the sender's nonce advanced by two.
C22_Witness ==
    /\ pc = "Done" /\ blk.ntx = 2 /\ tx.caller_address = AddrA
    /\ Cardinality(SenderNonceWrites(Log, AddrA)) = 2
    /\ get_nonce(state.sdb, AddrA) = InitialAccount(AddrA, "plain").nonce + 2
    /\ \E i \in 1..Len(Log) : Log[i].reversal

\* gas_price * gas limit + L1 fee
FeeOf(gas_price, gas, l1_fee) == gas_price * gas + l1_fee

\* The fee of a transaction that is no L1 message, for every gas price and
\* L1 fee.
C23_Fee ==
    \A gas_price \in 0..MaxWord, l1_fee \in 0..MaxWord :
        begin_tx_fee([tx EXCEPT !.is_l1_msg = FALSE, !.gas_price = gas_price,
                                !.l1_fee = l1_fee])
            = FeeOf(gas_price, tx.gas, l1_fee)

BalanceWrites(ops) ==
    {i \in 1..Len(ops) :
        Is(ops[i], "WRITE", "Account", "Balance") /\ ~ops[i].reversal}

\* value + fee of the transaction
AmountOf(t) == t.value + FeeOf(t.gas_price, t.gas, t.l1_fee)

C23_Transfer ==
    pc = "BeginTx" /\ ~tx.is_l1_msg /\ Ok(state') =>
        /\ BalanceWrites(NewOps) # {}
        \* value + fee goes from the sender to the recipient
        /\ tx.address # tx.caller_address /\ ~RevertedAtOnce =>
              /\ get_account(state'.sdb, tx.caller_address).balance =
                    get_account(state.sdb, tx.caller_address).balance - AmountOf(tx)
              /\ get_account(state'.sdb, tx.address).balance =
                    get_account(state.sdb, tx.address).balance + AmountOf(tx)
        /\ tx.address = tx.caller_address \/ RevertedAtOnce =>
              \A a \in {tx.caller_address, tx.address} :
                  get_account(state'.sdb, a).balance = get_account(state.sdb, a).balance
        \* right after the read of the recipient's code hash
        /\ \E r \in 1..Len(NewOps) :
              /\ Is(NewOps[r], "READ", "Account", "CodeHash")
              /\ NewOps[r].addr = tx.address
              /\ \A i \in BalanceWrites(NewOps) : r < i
              /\ r + 1 \in BalanceWrites(NewOps)
              /\ NewOps[r + 1].addr = tx.caller_address
              /\ NewOps[r + 1].prev - NewOps[r + 1].value = AmountOf(tx)
        \* before the frame's call-context writes
        /\ \A i \in BalanceWrites(NewOps), j \in FrameWrites : i < j
        \* by writes registered for undo: the debit and the credit
        /\ \A i \in BalanceWrites(NewOps) :
              /\ NewOps[i].reversible
              /\ \/ /\ NewOps[i].addr = tx.caller_address
                    /\ NewOps[i].prev - NewOps[i].value = AmountOf(tx)
                 \/ /\ NewOps[i].addr = tx.address
                    /\ NewOps[i].value - NewOps[i].prev = AmountOf(tx)
        /\ AmountOf(tx) > 0 =>
              \E i \in BalanceWrites(NewOps) :
                  /\ NewOps[i].addr = tx.address
                  /\ NewOps[i].value - NewOps[i].prev = AmountOf(tx)
        /\ Cardinality(BalanceWrites(NewOps)) <= 2

\* C23: BeginTx of a transaction that is no L1 message transfers value +
\* fee from the sender to the recipient, with fee = gas_price * gas limit +
\* L1 fee; the balance writes of the transfer come right after the read of
\* the recipient's code hash and before every call-context write of the
\* frame, and they are registered as reversible (so a root call BeginTx
\* reverts at once leaves both balances as they were).
C23_Theorem == [](C23_Fee) /\ [][C23_Transfer]_vars

\* After the BeginTx of a call to the contract with a value, a gas price
\* and an L1 fee: the sender was debited value + fee and the contract
\* credited value + fee, by reversible writes, before the frame was
\* written.
C23_Witness ==
    /\ pc = "Steps" /\ ~tx.is_l1_msg /\ tx.address = AddrContract
    /\ tx.value > 0 /\ tx.gas_price > 0 /\ tx.l1_fee > 0
    /\ \E i \in 1..(Len(Log) - 3) :
          /\ Log[i].kind = "BeginTx" /\ Log[i].tx_id = tx.tx_id
          /\ Is(Log[i], "READ", "Account", "CodeHash") /\ Log[i].addr = tx.address
          /\ Is(Log[i + 1], "WRITE", "Account", "Balance")
          /\ Log[i + 1].addr = tx.caller_address /\ Log[i + 1].reversible
          /\ Log[i + 1].prev - Log[i + 1].value = AmountOf(tx)
          /\ Is(Log[i + 2], "WRITE", "Account", "Balance")
          /\ Log[i + 2].addr = tx.address /\ Log[i + 2].reversible
          /\ Log[i + 2].value - Log[i + 2].prev = AmountOf(tx)
    /\ Is(Log[Len(Log)], "WRITE", "CallContext", "CodeHash")

\* The CopyEvent of the init code of the transaction.
InitCodeCopy(e) ==
    /\ e.src_type = "TxCalldata" /\ e.src_id = tx.tx_id
    /\ e.src_addr = 0 /\ e.src_addr_end = tx.input_len
    /\ e.dst_type = "Bytecode" /\ e.dst_addr = 0
    /\ e.padding = 0

C24_Creation ==
    /\ state'.sha3_inputs =
          state.sha3_inputs
            \o << <<"rlp", tx.caller_address, get_nonce(state.sdb, tx.caller_address)>>,
                  <<"init_code", tx.input_len, 0>> >>
    /\ Len(state'.copy_events) = Len(state.copy_events) + 1
    /\ SubSeq(state'.copy_events, 1, Len(state.copy_events)) = state.copy_events
    /\ LET e == state'.copy_events[Len(state'.copy_events)]
           k == e.rw_counter_start - Len(Log)
       IN  /\ InitCodeCopy(e)
           \* recorded between the transfer and the nonce write of the
           \* new contract, whose counter it takes
           /\ k \in 2..Len(NewOps)
           /\ NewOps[k].rwc = e.rw_counter_start
           /\ Is(NewOps[k], "WRITE", "Account", "Nonce") /\ NewOps[k].addr = tx.address
           /\ NewOps[k - 1].rwc = e.rw_counter_start - 1
           /\ NewOps[k - 1].tag = "Account" /\ NewOps[k - 1].reversible
           /\ NewOps[k - 1].field \in {"Balance", "CodeHash"}

C24_BeginTx ==
    pc = "BeginTx" /\ Ok(state') =>
        IF tx.is_create THEN C24_Creation
        ELSE /\ state'.sha3_inputs = state.sha3_inputs
             /\ state'.copy_events = state.copy_events

\* C24: BeginTx of a creation transaction registers exactly two hashing
\* inputs, the RLP encoding of (sender, sender nonce before the increment)
\* and then the init code, and records exactly one CopyEvent from
\* transaction calldata to bytecode covering the source bytes [0, len)
\* without padding; its rw_counter_start is the rw counter when it is
\* recorded, which the next operation takes, so recording it appends no
\* operation; BeginTx of any other transaction adds no hashing input and
\* no CopyEvent.
C24_Theorem == [][C24_BeginTx]_vars

\* After the BeginTx of a creation by a sender whose nonce was 1.
C24_Witness ==
    /\ pc = "Steps" /\ tx.is_create /\ tx.input_len > 0
    /\ state.sha3_inputs = << <<"rlp", tx.caller_address, 1>>,
                              <<"init_code", tx.input_len, 0>> >>
    /\ get_nonce(state.sdb, tx.caller_address) = 2
    /\ Len(state.copy_events) = 1
    /\ InitCodeCopy(state.copy_events[1])
    /\ Is(Log[state.copy_events[1].rw_counter_start], "WRITE", "Account", "Nonce")

\* ops[k + 1] is the reversible nonce write of the new contract and
\* ops[k + 2 .. k + 14] are the call-context writes of the creation frame.
CreationFrame(ops, k, call_id) ==
    /\ Len(ops) >= k + 1 + Len(FrameFieldNames)
    /\ Is(ops[k + 1], "WRITE", "Account", "Nonce")
    /\ ops[k + 1].addr = tx.address
    /\ ops[k + 1].value = 1 /\ ops[k + 1].prev = 0 /\ ops[k + 1].reversible
    /\ \A j \in 1..Len(FrameFieldNames) :
          /\ Is(ops[k + 1 + j], "WRITE", "CallContext", FrameFieldNames[j])
          /\ ops[k + 1 + j].id = call_id
          /\ FrameFieldNames[j] \in {"IsCreate", "IsRoot"} => ops[k + 1 + j].value = 1
          /\ FrameFieldNames[j] = "CallDataLength" => ops[k + 1 + j].value = 0

\* The frame of a creation is the same whatever the precompile test and
\* the code-hash test say.
C25_AnyTarget ==
    pc = "BeginTx" /\ tx.is_create =>
        \A is_precompile \in BOOLEAN, is_empty_code_hash \in BOOLEAN :
            LET framed == begin_tx_frame(state, tx, call(state), is_precompile,
                                         is_empty_code_hash).container
            IN  /\ Len(framed) = Len(Log) + 1 + Len(FrameFieldNames)
                /\ CreationFrame(framed, Len(Log), call(state).call_id)

C25_BeginTx ==
    pc = "BeginTx" /\ Ok(state') =>
        IF tx.is_create
        THEN /\ Cardinality(FrameWrites) = Len(FrameFieldNames)
             /\ CreationFrame(NewOps, Len(NewOps) - 1 - Len(FrameFieldNames),
                              state.root_call.call_id)
             /\ Cardinality({i \in 1..Len(NewOps) :
                                /\ Is(NewOps[i], "WRITE", "Account", "Nonce")
                                /\ NewOps[i].addr = tx.address}) = 1
        ELSE /\ is_precompiled(tx.address) => FrameWrites = {}
             /\ ~HasNonEmptyCode(state.sdb, tx.address) => FrameWrites = {}
             /\ \A i \in 1..Len(NewOps) :
                   Is(NewOps[i], "WRITE", "Account", "Nonce") =>
                       NewOps[i].addr = tx.caller_address

\* C25: BeginTx chooses the frame context by (is_create, is_precompile,
\* code hash empty): a creation transaction emits one reversible write
\* setting the new contract's nonce from 0 to 1, followed by the
\* call-context writes of the creation frame (IsCreate = 1, IsRoot = 1,
\* CallDataLength = 0), also when the target is a precompile address; a
\* non-creation call to a precompile writes no frame context; a
\* non-creation call to an account whose code hash is empty or zero writes
\* no frame context.
C25_Theorem == [](C25_AnyTarget) /\ [][C25_BeginTx]_vars

\* After the BeginTx of a creation: the log ends with the frame of the
\* creation, written after the nonce of the new contract.
C25_Witness ==
    /\ pc = "Steps" /\ tx.is_create /\ Len(Log) > 1 + Len(FrameFieldNames)
    /\ Log[Len(Log)].kind = "BeginTx"
    /\ CreationFrame(Log, Len(Log) - 1 - Len(FrameFieldNames), state.root_call.call_id)
    /\ get_account(state.sdb, tx.address).nonce = 1

\* The receipt writes among the operations, by field.
ReceiptWrites(ops, field) ==
    {i \in 1..Len(ops) : Is(ops[i], "WRITE", "TxReceipt", field)}

\* The credit of the sender by EndTx: gas_price * (gas left + effective
\* refund).
RefundCredit(refund, gas_left) ==
    tx.gas_price * (gas_left + CappedRefund(refund, tx.gas, gas_left))

\* ops[5] credits the sender, whose balance was `balance`, and ops[6] reads
\* the fee recipient's code hash.
CreditThenCoinbase(ops, coinbase, balance, credit) ==
    /\ Len(ops) >= 6
    /\ Is(ops[5], "WRITE", "Account", "Balance")
    /\ ops[5].addr = tx.caller_address /\ ~ops[5].reversible
    /\ ops[5].prev = balance /\ ops[5].value = balance + credit
    /\ Is(ops[6], "READ", "Account", "CodeHash") /\ ops[6].addr = coinbase

C26_EndTx ==
    pc = "EndTx" /\ Ok(state') =>
        /\ \A field \in {"PostStateOrStatus", "LogLength", "CumulativeGasUsed"} :
              Cardinality(ReceiptWrites(NewOps, field)) = 1
        /\ IF tx.is_l1_msg
           THEN /\ \A i \in 1..Len(NewOps) :
                      NewOps[i].tag = "Account" => NewOps[i].rw = "READ"
                /\ Is(NewOps[5], "READ", "Account", "CodeHash")
                /\ NewOps[5].addr = blk.coinbase
                /\ \A a \in Addrs :
                      get_account(state'.sdb, a).balance = get_account(state.sdb, a).balance
           ELSE /\ CreditThenCoinbase(NewOps, blk.coinbase,
                       get_account(state.sdb, tx.caller_address).balance,
                       RefundCredit(state.sdb.refund, tx'.gas_left))
                /\ Cardinality({i \in 1..Len(NewOps) :
                                   /\ Is(NewOps[i], "WRITE", "Account", "Balance")
                                   /\ NewOps[i].addr = tx.caller_address}) = 1
                /\ get_account(state'.sdb, tx.caller_address).balance =
                      get_account(state.sdb, tx.caller_address).balance
                        + RefundCredit(state.sdb.refund, tx'.gas_left)

\* A sender that is the fee recipient is credited by the same single write
\* before the fee recipient's code hash is read; a balance write of the
\* account after that read is the reward.
C26_SenderIsCoinbase ==
    pc = "EndTx" /\ Ok(state) /\ ~tx.is_l1_msg /\ tx.gas_price >= blk.base_fee =>
        \A gas_left \in GasLefts :
            LET t == [tx EXCEPT !.gas_left = gas_left]
                b == [blk EXCEPT !.coinbase = tx.caller_address]
                ops == SubSeq(gen_end_tx_ops(state, t, b).container,
                              Len(Log) + 1, Len(gen_end_tx_ops(state, t, b).container))
            IN  /\ CreditThenCoinbase(ops, tx.caller_address,
                       get_account(state.sdb, tx.caller_address).balance,
                       RefundCredit(state.sdb.refund, gas_left))
                /\ \A i \in 1..Len(ops) :
                      Is(ops[i], "WRITE", "Account", "Balance") /\ i # 5
                      => /\ i = 7
                         /\ ops[i].value - ops[i].prev = NetReward(state.sdb.refund, gas_left)

\* C26: EndTx credits the sender gas_price * (gas left + effective refund):
\* a transaction that is no L1 message gets exactly one balance write
\* crediting the sender, right after the refund read, whose previous value
\* is the ledger balance before EndTx (the reward is a separate write, also
\* when the sender is the fee recipient); an L1 message gets no balance
\* write of the sender and no transfer to the fee recipient, while the read
\* of the fee recipient's code hash and the three receipt writes are still
\* emitted.
C26_Theorem == [](C26_SenderIsCoinbase) /\ [][C26_EndTx]_vars

\* A transaction that is no L1 message is done: its EndTx credited the
\* sender a positive effective refund right after the refund read.
C26_Witness ==
    /\ pc = "Done" /\ ~tx.is_l1_msg /\ tx.gas_price > 0
    /\ CappedRefund(state.sdb.refund, tx.gas, tx.gas_left) > 0
    /\ \E i \in 2..Len(Log) :
          /\ Log[i].kind = "EndTx" /\ Log[i].tx_id = tx.tx_id
          /\ Is(Log[i], "WRITE", "Account", "Balance")
          /\ Log[i].addr = tx.caller_address
          /\ Log[i].value - Log[i].prev =
                RefundCredit(state.sdb.refund, tx.gas_left)
          /\ Log[i - 1].tag = "TxRefund"
          /\ Is(Log[i + 1], "READ", "Account", "CodeHash")

\* What EndTx leaves when it stops at a missing account: the operations
\* appended before the check, no receipt field, the cumulative gas as it
\* was, and no EndTx step.
StoppedAt(addr, n) ==
    /\ state'.result = "AccountNotFound" /\ state'.err_addr = addr
    /\ pc' = "Failed"
    /\ Len(NewOps) = n
    /\ Is(NewOps[1], "READ", "CallContext", "TxId")
    /\ Is(NewOps[2], "READ", "CallContext", "IsPersistent")
    /\ Is(NewOps[3], "READ", "CallContext", "L1Fee")
    /\ NewOps[4].rw = "READ" /\ NewOps[4].tag = "TxRefund"
    /\ n = 5 => /\ Is(NewOps[5], "WRITE", "Account", "Balance")
                /\ NewOps[5].addr = tx.caller_address
    /\ \A i \in 1..Len(NewOps) : NewOps[i].tag # "TxReceipt"
    /\ state'.cumulative_gas_used = state.cumulative_gas_used
    /\ state'.tx_steps = state.tx_steps

C27_EndTx ==
    pc = "EndTx" =>
        /\ ~get_account(state.sdb, tx.caller_address).found =>
              StoppedAt(tx.caller_address, 4)
        /\ /\ get_account(state.sdb, tx.caller_address).found
           /\ ~get_account(state.sdb, blk.coinbase).found
           => StoppedAt(blk.coinbase, IF tx.is_l1_msg THEN 4 ELSE 5)

\* C27: EndTx returns AccountNotFound naming the sender when the sender
\* has no ledger entry, and naming the fee recipient when the fee recipient
\* has none; the operations appended before the check (the three
\* call-context reads and the refund read, plus the sender's balance write
\* in the fee-recipient case) stay in the log, no receipt field is written
\* and the cumulative gas of the block is not advanced.
C27_NotFound == [][C27_EndTx]_vars

\* The number of stack arguments an opcode of the call family takes.
OpArgs(op) ==
    CASE op \in {"CALL", "CALLCODE"} -> 7
      [] op \in {"DELEGATECALL", "STATICCALL"} -> 6
      [] op = "CREATE" -> 3
      [] op = "CREATE2" -> 4
      [] OTHER -> 0

\* The errors of the call family whose handler is a call or create handler,
\* each with the opcodes that can declare it.
CallFamilyErrors ==
    ({"Depth.Call"} \X CallOps)
      \cup ({"InsufficientBalance.Call"} \X {"CALL", "CALLCODE"})
      \cup ({"Depth.Create", "InsufficientBalance.Create",
             "ContractAddressCollision.Create", "NonceUintOverflow.Create"}
              \X {"CREATE"})
      \cup ({"Depth.Create2", "InsufficientBalance.Create2",
             "ContractAddressCollision.Create2", "NonceUintOverflow.Create2"}
              \X {"CREATE2"})

C28_Routing ==
    /\ \A op \in {"CALL", "CALLCODE"} :
          fn_gen_error_state_associated_ops(op, "Depth.Call") = CallOpcode(7)
    /\ \A op \in {"DELEGATECALL", "STATICCALL"} :
          fn_gen_error_state_associated_ops(op, "Depth.Call") = CallOpcode(6)
    /\ fn_gen_error_state_associated_ops("CREATE", "Depth.Create") = Create(FALSE)
    /\ fn_gen_error_state_associated_ops("CREATE2", "Depth.Create2") = Create(TRUE)
    /\ Create(FALSE) # Create(TRUE)
    /\ \A p \in CallFamilyErrors :
          /\ fn_gen_error_state_associated_ops(p[2], p[1]).name \in {"CallOpcode", "Create"}
          /\ fn_gen_error_state_associated_ops(p[2], p[1]).n = OpArgs(p[2])

\* The stack reads among the appended operations.
StackReads == {i \in 1..Len(NewOps) : NewOps[i].rw = "READ" /\ NewOps[i].tag = "Stack"}

\* A step that declares a depth error of a call pops the arguments of its
\* opcode before anything else.
C28_Step ==
    pc = "Steps" /\ Ok(state') /\ state'.exec_error = "Depth.Call" =>
        /\ state'.exec_step.op \in CallOps
        /\ Cardinality(StackReads) = OpArgs(state'.exec_step.op)
        /\ StackReads = 1..OpArgs(state'.exec_step.op)
        /\ state'.tx_steps[Len(state'.tx_steps)].error = "Depth.Call"

\* C28: a depth error is routed by the failing opcode: on CALL or CALLCODE
\* to the 7-argument call handler, on DELEGATECALL or STATICCALL to the
\* 6-argument call handler, on CREATE to the CREATE handler and on CREATE2
\* to the CREATE2 handler; for every error of the call family that has a
\* call or create handler registered, the handler chosen pops as many stack
\* arguments as the failing opcode takes.
C28_Theorem == [](C28_Routing) /\ [][C28_Step]_vars

\* A DELEGATECALL that declared a depth error was dispatched: six stack
\* reads open its operations.
C28_Witness ==
    /\ pc = "Steps" /\ state.exec_error = "Depth.Call" /\ Ok(state)
    /\ state.exec_step.op = "DELEGATECALL"
    /\ \E i \in 1..Len(Log) :
          /\ Log[i].kind = "Step" /\ Log[i].index = state.exec_step.index
          /\ Log[i - 1].index # Log[i].index \/ Log[i - 1].kind # "Step"
          /\ \A k \in 0..5 : Log[i + k].rw = "READ" /\ Log[i + k].tag = "Stack"
          /\ Log[i + 6].rw = "WRITE" /\ Log[i + 6].tag = "Stack"

\* The opcodes of the trace steps that the table hands to Dummy because
\* they have no handler of their own, and JUMPDEST.
DummyOps ==
    {"JUMPDEST"} \cup {op \in {"TLOAD", "TSTORE", "MCOPY", "BLOBHASH"} :
                          fn_gen_associated_ops(op) = Named("Dummy")}

\* The steps of the current transaction among the ExecSteps.
TraceSteps(steps) ==
    {k \in 1..Len(steps) : steps[k].kind = "Step" /\ steps[k].tx_id = tx.tx_id}

C29_Dummy ==
    pc = "Steps" /\ Ok(state') /\ state'.exec_error = "None"
      /\ state'.exec_step.op \in DummyOps =>
        /\ NewOps = <<>>
        /\ state'.rwc = state.rwc
        /\ Len(state'.returned) = 1
        /\ state'.returned[1].op = state'.exec_step.op
        /\ state'.returned[1].index = tx'.nsteps
        /\ state'.tx_steps = Append(state.tx_steps, state'.returned[1])
        /\ state'.sdb = state.sdb /\ state'.calls = state.calls

C29_AtLeastOne ==
    pc = "Steps" /\ Ok(state') =>
        /\ Len(state'.returned) >= 1
        /\ Len(state'.tx_steps) = Len(state.tx_steps) + Len(state'.returned)

C29_Steps ==
    Ok(state) /\ pc \in {"Steps", "EndTx"} =>
        Cardinality(TraceSteps(state.tx_steps)) >= tx.nsteps

\* C29: a trace step with no declared error whose opcode has no registered
\* handler, and likewise JUMPDEST, yields exactly one ExecStep and appends
\* no operation; every dispatch of a step returns at least one ExecStep, so
\* the ExecSteps of a transaction are never fewer than the trace steps
\* dispatched.
C29_Theorem == [](C29_Steps) /\ [][C29_Dummy /\ C29_AtLeastOne]_vars

\* A JUMPDEST and an opcode without handler were dispatched one after the
\* other: two steps, and the log is as long as it was after BeginTx.
C29_Witness ==
    /\ pc = "Steps" /\ tx.nsteps = 2 /\ Ok(state)
    /\ Len(state.tx_steps) = 3
    /\ {state.tx_steps[2].op, state.tx_steps[3].op} = {"JUMPDEST", "TLOAD"}
    /\ "TLOAD" \in DummyOps
    /\ Log[Len(Log)].kind = "BeginTx"

\* Direction, kind, field and address of an operation.
Shape(e) == <<e.rw, e.tag, e.field, e.addr>>

Shapes(ops) == [i \in 1..Len(ops) |-> Shape(ops[i])]

When(cond, shapes) == IF cond THEN shapes ELSE <<>>

\* The operations of an EndTx that goes through, in order; `reward` is the
\* reward and `exists` tells whether the fee recipient is a non-empty
\* account when the reward is transferred.
EndTxShapes(reward, exists) ==
    << <<"READ", "CallContext", "TxId", 0>>,
       <<"READ", "CallContext", "IsPersistent", 0>>,
       <<"READ", "CallContext", "L1Fee", 0>>,
       <<"READ", "TxRefund", "", 0>> >>
    \o When(~tx.is_l1_msg, << <<"WRITE", "Account", "Balance", tx.caller_address>> >>)
    \o << <<"READ", "Account", "CodeHash", blk.coinbase>> >>
    \o When(~tx.is_l1_msg /\ ~exists /\ reward # 0,
            << <<"WRITE", "Account", "CodeHash", blk.coinbase>> >>)
    \o When(~tx.is_l1_msg /\ reward # 0,
            << <<"WRITE", "Account", "Balance", blk.coinbase>> >>)
    \o << <<"WRITE", "TxReceipt", "PostStateOrStatus", 0>>,
          <<"WRITE", "TxReceipt", "LogLength", 0>> >>
    \o When(tx.tx_id > 1, << <<"READ", "TxReceipt", "CumulativeGasUsed", 0>> >>)
    \o << <<"WRITE", "TxReceipt", "CumulativeGasUsed", 0>> >>
    \o When(~tx.is_last_tx, << <<"WRITE", "CallContext", "TxId", 0>> >>)

C30_EndTx ==
    pc = "EndTx" /\ Ok(state') =>
        /\ Shapes(NewOps) =
              EndTxShapes(NetReward(state.sdb.refund, tx'.gas_left),
                          ~is_empty(get_account(state.sdb, blk.coinbase)))
        /\ \A i \in 1..Len(NewOps) :
              /\ NewOps[i].kind = "EndTx"
              /\ Is(NewOps[i], "WRITE", "TxReceipt", "PostStateOrStatus") =>
                    /\ NewOps[i].value \in {0, 1}
                    /\ NewOps[i].value = 1 <=> state.root_call.is_persistent
              /\ Is(NewOps[i], "READ", "CallContext", "IsPersistent") =>
                    (NewOps[i].value = 1 <=> state.root_call.is_persistent)

\* C30: EndTx appends its operations in exactly this order: the
\* call-context READs of TxId, IsPersistent and L1Fee; the refund READ; the
\* sender's balance write (no L1 message only); the READ of the fee
\* recipient's code hash; the writes of the reward transfer (no L1 message
\* only, and none for a zero reward); the receipt WRITE of the status,
\* which is 1 exactly when the root call is persistent; the receipt WRITE
\* of the log count; the READ of the previous cumulative gas (after the
\* first transaction only); the receipt WRITE of the cumulative gas; and
\* the write of the next TxId (not for the last transaction).
C30_Theorem == [][C30_EndTx]_vars

\* The second transaction of a block is done, its root call reverted, and
\* its EndTx paid the fee recipient a reward.
C30_Witness ==
    /\ pc = "Done" /\ tx.tx_id = 2 /\ ~tx.is_l1_msg /\ ~state.root_call.is_persistent
    /\ Len(Log) > 10
    /\ \A k \in 0..9 : Log[Len(Log) - k].kind = "EndTx" /\ Log[Len(Log) - k].tx_id = 2
    /\ Is(Log[Len(Log)], "WRITE", "TxReceipt", "CumulativeGasUsed")
    /\ Is(Log[Len(Log) - 1], "READ", "TxReceipt", "CumulativeGasUsed")
    /\ Is(Log[Len(Log) - 2], "WRITE", "TxReceipt", "LogLength")
    /\ Is(Log[Len(Log) - 3], "WRITE", "TxReceipt", "PostStateOrStatus")
    /\ Log[Len(Log) - 3].value = 0
    /\ Is(Log[Len(Log) - 4], "WRITE", "Account", "Balance")
    /\ Log[Len(Log) - 4].addr = blk.coinbase
    /\ \E k \in 5..7 : /\ Is(Log[Len(Log) - k], "READ", "Account", "CodeHash")
                       /\ Log[Len(Log) - k - 1].addr = tx.caller_address
                       /\ Log[Len(Log) - k - 2].tag = "TxRefund"

\* Everything an entry of the log says about its operation.
Detail(e) == <<e.rw, e.tag, e.field, e.addr, e.value, e.prev, e.reversible>>

Details(ops) == [i \in 1..Len(ops) |-> Detail(ops[i])]

\* A SELFDESTRUCT step with no declared error and `receiver` on the stack,
\* as the next step of the trace.
SelfDestructStep(receiver) ==
    [StepInput("SELFDESTRUCT", "None", receiver, FALSE, TRUE, 0, "success")
        EXCEPT !.index = tx.nsteps + 1]

\* The operations `s2` holds that `s` does not.
Appended(s, s2) == SubSeq(s2.container, Len(s.container) + 1, Len(s2.container))

\* The writes of a SELFDESTRUCT of `sender` in favour of `receiver` on the
\* ledger `sdb`, in order.
SelfDestructWrites(sdb, sender, receiver) ==
    LET acc == get_account(sdb, sender)
        racc == get_account(sdb, receiver)
    IN  << <<"WRITE", "TxAccessListAccount", "", receiver, 1,
             B2N(receiver \in sdb.access_list), TRUE>>,
           <<"WRITE", "Account", "Balance", sender, 0, acc.balance, TRUE>>,
           <<"WRITE", "Account", "Nonce", sender, 0, acc.nonce, TRUE>>,
           <<"WRITE", "Account", "CodeHash", sender, 0, acc.code_hash, TRUE>> >>
        \o When(receiver # sender /\ acc.balance # 0 /\ is_empty(racc),
                << <<"WRITE", "Account", "CodeHash", receiver, empty_code_hash,
                     ZeroHash, TRUE>> >>)
        \o When(receiver # sender /\ acc.balance # 0,
                << <<"WRITE", "Account", "Balance", receiver,
                     racc.balance + acc.balance, racc.balance, TRUE>> >>)

\* The receivers a SELFDESTRUCT step may name.
Receivers == {AddrA, AddrB, AddrContract, AddrNew, AddrCoinbase, 1}

C31_Writes(receiver) ==
    LET sender == call(state).address
        s2 == gen_associated_ops(state, SelfDestructStep(receiver))
        ops == Appended(state, s2)
        writes == SelfDestructWrites(state.sdb, sender, receiver)
        n == Len(writes)
    IN  Ok(s2) =>
          /\ Len(ops) >= n
          /\ Details(SubSeq(ops, 1, n)) = writes
          /\ \A i \in (n + 1)..Len(ops) : ops[i].rw = "READ" /\ ops[i].tag = "CallContext"
          /\ \A i \in 1..Len(ops) : ~ops[i].reversal /\ ops[i].kind = "Step"
          /\ get_account(s2.sdb, sender).balance = 0
          /\ receiver # sender =>
                get_account(s2.sdb, sender).balance + get_account(s2.sdb, receiver).balance
                  = get_account(state.sdb, sender).balance
                      + get_account(state.sdb, receiver).balance

\* C31: the SELFDESTRUCT placeholder appends, in order, the reversible
\* access-list write of the receiver (is_warm true, previous value its
\* membership), the reversible writes that set the balance, the nonce and
\* the code hash of the executing account to zero, each with the value the
\* field had, and then, only when the receiver is another account, the
\* transfer of the whole previous balance to the receiver; the sum of the
\* two balances is unchanged, and with the executing account as receiver
\* nothing is transferred and the balance ends at zero.
C31_Theorem ==
    pc = "Steps" /\ Ok(state) /\ call(state).is_success =>
        \A receiver \in Receivers : C31_Writes(receiver)

\* A contract with a balance destructed itself in favour of an empty
\* account: the last step left the four writes, the creation of the
\* receiver and its credit.
C31_Witness ==
    /\ Ok(state) /\ state.exec_step.op = "SELFDESTRUCT" /\ state.exec_error = "None"
    /\ state.exec_step.kind = "Step"
    /\ \E i \in 1..Len(Log) :
          /\ i + 5 <= Len(Log)
          /\ IsWarming(Log[i]) /\ Log[i].reversible /\ Log[i].addr = AddrB
          /\ Log[i].index = state.exec_step.index /\ Log[i].kind = "Step"
          /\ Is(Log[i + 1], "WRITE", "Account", "Balance")
          /\ Log[i + 1].addr = AddrContract /\ Log[i + 1].prev = 1 /\ Log[i + 1].value = 0
          /\ Is(Log[i + 2], "WRITE", "Account", "Nonce")
          /\ Is(Log[i + 3], "WRITE", "Account", "CodeHash")
          /\ Is(Log[i + 4], "WRITE", "Account", "CodeHash") /\ Log[i + 4].addr = AddrB
          /\ Is(Log[i + 5], "WRITE", "Account", "Balance") /\ Log[i + 5].addr = AddrB
          /\ Log[i + 5].value = 1 /\ Log[i + 5].reversible

\* The builder context with the ledger entries of `missing` removed.
Without(s, missing) ==
    [s EXCEPT !.sdb.state =
        [a \in Addrs |-> IF a \in missing THEN [@[a] EXCEPT !.found = FALSE] ELSE @[a]]]

\* A SELFDESTRUCT in favour of `receiver` dispatched in context `s` stops
\* with AccountNotFound naming `named`, leaving only the access-list write.
StopsNotFound(s, receiver, named) ==
    LET s2 == gen_associated_ops(s, SelfDestructStep(receiver))
        ops == Appended(s, s2)
    IN  /\ s2.result = "AccountNotFound" /\ s2.err_addr = named
        /\ Details(ops) =
              << <<"WRITE", "TxAccessListAccount", "", receiver, 1,
                   B2N(receiver \in s.sdb.access_list), TRUE>> >>
        /\ \A i \in 1..Len(ops) : ops[i].tag # "Account"
        /\ s2.sdb.state = s.sdb.state
        /\ s2.sdb.access_list = s.sdb.access_list \cup {receiver}
        /\ s2.destructed = s.destructed
        /\ s2.calls = s.calls /\ s2.restored = s.restored
        /\ s2.reverted = s.reverted

C32_Lookups(receiver) ==
    LET sender == call(state).address
    IN  /\ ~get_account(state.sdb, receiver).found =>
              StopsNotFound(state, receiver, receiver)
        /\ StopsNotFound(Without(state, {receiver}), receiver, receiver)
        /\ StopsNotFound(Without(state, {receiver, sender}), receiver, receiver)
        /\ get_account(state.sdb, receiver).found =>
              StopsNotFound(Without(state, {sender}), receiver,
                            IF receiver = sender THEN receiver ELSE sender)

\* C32: the SELFDESTRUCT placeholder returns AccountNotFound naming the
\* receiver when the receiver has no ledger entry, also when the executing
\* account has none either, and naming the executing account when only
\* that one has none; the access-list write of the receiver appended
\* before the lookups stays in the log, no balance, nonce or code-hash
\* write is appended, the account is not destructed and the frame is not
\* returned.
C32_Theorem ==
    pc = "Steps" /\ Ok(state) /\ call(state).is_success =>
        \A receiver \in Receivers \cup {AddrAbsent} : C32_Lookups(receiver)

\* A SELFDESTRUCT in favour of an address without ledger entry stopped the
\* build: the last operation of the log is the access-list write.
C32_Witness ==
    /\ pc = "Failed" /\ state.result = "AccountNotFound" /\ state.err_addr = AddrAbsent
    /\ state.exec_step.op = "SELFDESTRUCT"
    /\ state.calls # <<>> /\ call(state).address \notin state.destructed
    /\ IsWarming(Log[Len(Log)]) /\ Log[Len(Log)].addr = AddrAbsent
    /\ Log[Len(Log)].reversible /\ Log[Len(Log)].kind = "Step"
    /\ AddrAbsent \in state.sdb.access_list

\* The builder context with `data` bytes of return data in the caller's
\* frame, when the executing frame has a caller.
WithCallerData(s, data) ==
    IF Len(s.calls) > 1
    THEN [s EXCEPT !.calls[Len(s.calls) - 1].return_data = data]
    ELSE s

\* The caller-restore reads among `ops`.
RestoreReads(ops) ==
    [i \in {j \in 1..Len(ops) : ops[j].rw = "READ" /\ ops[j].tag = "CallContext"}
        |-> ops[i].field]

C33_Finish(receiver, data) ==
    LET s == WithCallerData(state, data)
        n == Len(s.calls)
        frame == call(s)
        sender == frame.address
        s2 == gen_associated_ops(s, SelfDestructStep(receiver))
        ops == Appended(s, s2)
        w == Len(SelfDestructWrites(s.sdb, sender, receiver))
    IN  Ok(s2) =>
          /\ sender \in s2.destructed <=> frame.is_persistent \/ sender \in s.destructed
          /\ s2.destructed \ {sender} = s.destructed \ {sender}
          /\ frame.is_persistent =>
                get_account(s2.sdb, sender) = [AccountZero EXCEPT !.found = TRUE]
          /\ ~frame.is_persistent =>
                get_account(s2.sdb, sender) =
                    [get_account(s.sdb, sender) EXCEPT
                        !.balance = 0, !.nonce = 0, !.code_hash = ZeroHash]
          /\ s2.restored = Append(s.restored, ~frame.is_root)
          /\ Len(ops) = w + (IF frame.is_root THEN 0 ELSE 4)
          /\ ~frame.is_root =>
                /\ \A i \in (w + 1)..Len(ops) : Is(ops[i], "READ", "CallContext", ops[i].field)
                /\ {ops[i].field : i \in (w + 1)..Len(ops)} = CallerFields
          /\ Len(s2.calls) = n - 1
          /\ n > 1 =>
                s2.calls = SubSeq([s.calls EXCEPT ![n - 1].return_data = 0], 1, n - 1)
          /\ s2.reverted = s.reverted

\* The lengths of return data a caller's frame may hold.
ReturnData == {0, 1, 2}

\* C33: the SELFDESTRUCT placeholder destructs the executing account in
\* the ledger exactly when the current frame is persistent, and keeps the
\* ledger entry (with the zeroed fields) otherwise; in both cases the
\* frame returns through handle_return, with the caller-restore operations
\* exactly when the frame is not the root call, after the return data of
\* the caller's frame, when there is one, was cleared.
C33_Theorem ==
    pc = "Steps" /\ Ok(state) /\ call(state).is_success =>
        \A receiver \in Receivers, data \in ReturnData : C33_Finish(receiver, data)

\* A frame entered by a call of a root call that fails destructed its
\* account: the frame is gone, its caller was restored, and the ledger
\* entry with its storage is still there.
C33_Witness ==
    /\ pc = "Steps" /\ Ok(state) /\ state.exec_step.op = "SELFDESTRUCT"
    /\ state.exec_error = "None"
    /\ Len(state.calls) = 1 /\ ~call(state).is_persistent
    /\ state.destructed = {}
    /\ LastRestore(state)
    /\ get_account(state.sdb, AddrContract).code_hash = ZeroHash
    /\ get_account(state.sdb, AddrContract).storage = 1
    /\ Is(Log[Len(Log)], "READ", "CallContext", "GasLeft")
    /\ Log[Len(Log)].index = state.exec_step.index

\* The classified errors the stack-only error handler serves, each with an
\* opcode that raises it and the number of arguments the opcode had popped.
StackOnlyErrors ==
    { <<"INVALID", "InvalidOpcode", 0>>, <<"PUSH1", "StackOverflow", 0>>,
      <<"ADD", "StackUnderflow", 0>>, <<"ADD", "OutOfGas.Constant", 0>>,
      <<"MLOAD", "OutOfGas.StaticMemoryExpansion", 1>>,
      <<"RETURN", "OutOfGas.DynamicMemoryExpansion", 2>>,
      <<"EXP", "OutOfGas.Exp", 2>>, <<"SHA3", "OutOfGas.Sha3", 2>>,
      <<"CREATE", "OutOfGas.Create", 3>>, <<"CREATE2", "OutOfGas.Create", 4>> }

\* A step of opcode `op` on which the trace declares `error`, as the next
\* step of the trace.
FailingStep(op, error) == [Failing(op, error) EXCEPT !.index = tx.nsteps + 1]

\* The stack operations of one direction among `ops`.
StackOps(ops, rw) == {i \in 1..Len(ops) : ops[i].rw = rw /\ ops[i].tag = "Stack"}

C34_Pops(op, error, n) ==
    LET s2 == gen_associated_ops(state, FailingStep(op, error))
        ops == Appended(state, s2)
    IN  /\ fn_gen_error_state_associated_ops(op, error) = StackOnlyOpcode(n, 0, TRUE)
        /\ Ok(s2)
        /\ StackOps(ops, "READ") = 1..n
        /\ StackOps(ops, "WRITE") = {}
        /\ \A i \in 1..n : ops[i].id = call(state).call_id /\ ~ops[i].reversible
        /\ Len(s2.returned) = 1 /\ s2.returned[1].error = error

\* C34: a classified error served by the generic stack-only error handler
\* emits the stack pops its opcode made before aborting, first and in one
\* run, and no push: none for an invalid opcode, a stack overflow, a stack
\* underflow and constant out of gas; 1 for out of gas in static memory
\* expansion; 2 for out of gas in dynamic memory expansion, in
\* exponentiation and in hashing; 3 for out of gas in CREATE and 4 in
\* CREATE2.
C34_Theorem ==
    pc = "Steps" /\ Ok(state) /\ ~call(state).is_success =>
        \A e \in StackOnlyErrors : C34_Pops(e[1], e[2], e[3])

\* A CREATE ran out of gas: the failing step left three stack pops and no
\* push before the frame returned.
C34_Witness ==
    /\ Ok(state) /\ state.exec_error = "OutOfGas.Create"
    /\ state.exec_step.op = "CREATE"
    /\ Cardinality({i \in 1..Len(Log) :
           /\ Log[i].tag = "Stack" /\ Log[i].rw = "READ" /\ Log[i].kind = "Step"
           /\ Log[i].index = state.exec_step.index /\ Log[i].tx_id = tx.tx_id}) = 3
    /\ \A i \in 1..Len(Log) : ~(Log[i].tag = "Stack" /\ Log[i].rw = "WRITE")
    /\ state.calls = <<>> /\ pc = "EndTx"

\* The ledger `sdb` after the WRITEs among ops[i..], applied in order.
RECURSIVE ApplyWrites(_, _, _)
ApplyWrites(sdb, ops, i) ==
    IF i > Len(ops) THEN sdb
    ELSE ApplyWrites(IF ops[i].rw = "WRITE" THEN apply_op(sdb, ops[i]) ELSE sdb,
                     ops, i + 1)

C35_BeginTx ==
    pc = "BeginTx" /\ Ok(state') =>
        LedgerView(state'.sdb) = LedgerView(ApplyWrites(state.sdb, NewOps, 1))

\* C35: BeginTx changes the ledger only through the operations it logs:
\* the accounts, the storage, the access list and the refund counter after
\* BeginTx are those before it with the logged WRITEs applied in order, so
\* no account field and no storage slot changes without an operation in the
\* log.
C35_OnlyLogged == [][C35_BeginTx]_vars

\* The positions of the reversible writes (or, with `reversals`, of the
\* reversals) among ops[i..], in increasing order.
RECURSIVE Positions(_, _, _)
Positions(ops, i, reversals) ==
    IF i > Len(ops) THEN <<>>
    ELSE (IF (IF reversals THEN ops[i].reversal ELSE ops[i].reversible)
          THEN <<i>> ELSE <<>>)
         \o Positions(ops, i + 1, reversals)

\* `u` undoes the write `e`: same target, value and previous value swapped.
Undoes(u, e) ==
    /\ u.rw = "WRITE" /\ u.reversal /\ ~u.reversible
    /\ u.tag = e.tag /\ u.id = e.id /\ u.addr = e.addr /\ u.field = e.field
    /\ u.value = e.prev /\ u.prev = e.value

\* The reversals among `ops` are its tail and undo the reversible writes of
\* `ops`, the last one first.
RevertedAtEnd(ops) ==
    LET writes == Positions(ops, 1, FALSE)
        m == Len(writes)
        n == Len(ops)
    IN  /\ m > 0
        /\ Positions(ops, 1, TRUE) = [j \in 1..m |-> n - m + j]
        /\ \A j \in 1..m : Undoes(ops[n - m + j], ops[writes[m - j + 1]])

C36_BeginTx ==
    pc = "BeginTx" /\ Ok(state') =>
        /\ state'.tx_steps = Append(state.tx_steps, state'.exec_step)
        /\ state'.exec_step.kind = "BeginTx"
        /\ \A i \in 1..Len(NewOps) : NewOps[i].kind = "BeginTx"
        /\ IF is_precompiled(tx.address) /\ ~call(state).is_success
           THEN /\ state'.reverted = state.reverted + 1
                /\ RevertedAtEnd(NewOps)
                /\ state'.reversion_groups = <<>>
           ELSE /\ state'.reverted = state.reverted
                /\ Positions(NewOps, 1, TRUE) = <<>>
                /\ Len(state'.reversion_groups) = Len(state.reversion_groups)

\* C36: when the recipient is a precompile and the root call does not
\* succeed, BeginTx itself reverts the reversible writes made so far: the
\* reversals are the last operations of BeginTx, they undo its reversible
\* writes in reverse order, and they belong to the BeginTx step, which is
\* added to the steps of the transaction afterwards; for any other
\* recipient, and for a root call that succeeds, BeginTx reverts nothing.
C36_Theorem == [][C36_BeginTx]_vars

\* The BeginTx of a failing call that sends value to a precompile ended
\* with the reversal of the credit, of the creation of the recipient's
\* account, of the debit and of the warming, the first address warmed
\* being the last one undone.
C36_Witness ==
    /\ pc = "EndTx" /\ Ok(state) /\ is_precompiled(tx.address) /\ ~tx.is_success
    /\ tx.value = 1 /\ state.reverted = 1
    /\ state.exec_step.kind = "BeginTx" /\ Len(state.tx_steps) = 1
    /\ \E k \in 2..Len(Log) :
          /\ k + 2 < Len(Log)
          /\ ~Log[k - 1].reversal
          /\ Log[k].reversal /\ Log[k].addr = tx.address /\ Log[k].field = "Balance"
          /\ Log[k].value = 0 /\ Log[k].prev = AmountOf(tx)
          /\ Log[k + 1].reversal /\ Log[k + 1].addr = tx.address
          /\ Log[k + 1].field = "CodeHash"
          /\ Log[k + 2].reversal /\ Log[k + 2].addr = tx.caller_address
          /\ Log[k + 2].field = "Balance"
          /\ Log[k + 2].value = Log[k + 2].prev + AmountOf(tx)
          /\ \A j \in (k + 3)..Len(Log) :
                Log[j].reversal /\ Log[j].tag = "TxAccessListAccount"
    /\ Log[Len(Log)].addr = 1 /\ Log[Len(Log)].value = 0 /\ Log[Len(Log)].prev = 1
    /\ state.sdb.access_list = {}
    /\ get_account(state.sdb, tx.address).balance = 0

\* The parameters are a setup for the secret that is the logarithm of s_g2:
\* g starts at the generator, each point is the one before multiplied by
\* the secret, all points are affine, and g_lagrange is the Lagrange basis
\* of g.  (Openings verify against s_g2 exactly for such parameters.)
ConsistentSetup(param) ==
    /\ Len(param.g) = param.n /\ param.n = Pow2(param.k)
    /\ param.g[1] = G1Affine(1 % FieldSize)
    /\ \A i \in 1..(param.n - 1) :
          param.g[i + 1] = G1Affine(FrMul(param.g[i].log, param.s_g2))
    /\ param.g_lagrange = g_to_lagrange(param.g, param.k)

\* The scalar a run draws from its seed.
SecretOf(seed) == Fr_random(ChaCha20Rng_from_seed(seed))

\* The run multiplied g[i] by r^i, for i from 0, and s_g2 by r.
Rerandomized(param, old, r) ==
    /\ Len(param.g) = Len(old.g)
    /\ \A i \in 1..Len(old.g) :
          param.g[i] = G1Affine(FrMul(FrPow(r, i - 1), old.g[i].log))
    /\ param.s_g2 = FrMul(r, old.s_g2)
    /\ param.k = old.k /\ param.n = old.n

\* C37: after re_randomize_srs(param, seed) the parameters are still a
\* consistent setup, for the product of the secrets: with r drawn from the
\* seed alone, the new g[i] is r^i times the old g[i] for every i in 0..n
\* and the new s_g2 is r times the old s_g2; the result is a function of
\* the parameters and the seed, whatever the threads did.
C37_Theorem ==
    srs.at = "Done" =>
        /\ Rerandomized(srs.param, srs.old, SecretOf(srs.seed))
        /\ ConsistentSetup(srs.old) /\ ConsistentSetup(srs.param)
        /\ srs.param.s_g2 = FrMul(SecretOf(srs.seed), srs.old.s_g2)
        /\ srs.secret = SecretOf(srs.seed)

\* A run over 8 points on 3 threads is done with a secret that is neither
\* 0 nor 1: the last point moved.
C37_Witness ==
    /\ srs.at = "Done" /\ srs.param.n = 8 /\ srs.num_threads = 3
    /\ srs.secret \notin {0, 1}
    /\ srs.param.g[8] # srs.old.g[8]
    /\ srs.param.s_g2 # srs.old.s_g2
    /\ Len(srs.chunks) = 4

\* A run that ended gave the points the claim names.
C38_SamePoints ==
    srs.at = "Done" =>
        /\ Len(srs.new_g_proj) = srs.param.n
        /\ \A i \in 1..srs.param.n :
              srs.new_g_proj[i] = g1_mul(srs.old.g[i], FrPow(srs.secret, i - 1))

\* C38: the result of re_randomize_srs does not depend on how the work is
\* split over the worker threads: for every number of worker threads from
\* 1 on and every parameter size n from 2 on the run completes (it does
\* not panic) and produces the same n points, each g[i] multiplied by the
\* power r^i of its own index.
C38_AnySplit == srs.at # "Panicked" /\ C38_SamePoints

\* The calls that are past LOGGER.call_once.
PastCallOnce == {c \in 1..Len(env.calls) : env.calls[c].at \in {"return", "done"}}

\* The calls that have their output directory.
PastCreateDir ==
    {c \in 1..Len(env.calls) : env.calls[c].output_dir # <<>>}

C39_Once ==
    env.at = "Running" =>
        /\ Len(env.configs) <= 1 /\ Len(env.appenders) <= 1
        /\ Len(env.configs) <= Len(env.appenders)
        /\ ~env.io_failed => Len(env.configs) = Len(env.appenders)
        /\ Cardinality({c \in 1..Len(env.calls) : env.calls[c].at = "closure"}) <= 1
        /\ env.LOGGER = "Complete" <=> Len(env.configs) = 1
        /\ PastCallOnce # {} => env.LOGGER = "Complete"
        /\ Len(env.appenders) = 1 =>
              /\ env.arrived # <<>>
              /\ env.appenders[1] =
                    log_file_path_of(env.calls[env.arrived[1]].output_dir)
              /\ env.appenders[1] \in env.files
              /\ env.files = {env.appenders[1]}
        /\ Len(env.configs) = 1 => env.configs[1].log_file = env.appenders[1]
        /\ \A c \in 1..Len(env.calls) :
              env.calls[c].at \in {"call_once", "closure", "return", "done"}
                  => c \in PastCreateDir
        /\ \A c \in PastCreateDir :
              /\ env.calls[c].output_dir \in env.dirs
              /\ \E now \in 0..env.clock :
                    env.calls[c].output_dir =
                        output_dir_name(env.vars_set, env.calls[c].id, now)
        /\ \A c \in 1..Len(env.calls) :
              /\ env.calls[c].at = "done" => env.calls[c].returned = env.calls[c].output_dir
              /\ env.calls[c].at = "panicked" => env.io_failed

C39_NeverAgain ==
    env.at = "Running" /\ Len(env.appenders) = 1 =>
        /\ env'.configs = env.configs /\ env'.appenders = env.appenders
        /\ env'.files = env.files /\ env'.LOGGER = env.LOGGER

\* C39: for any number of calls of init_env_and_log, one after the other
\* or at the same time, the logger is configured and the file appender
\* created at most once, by the first call that gets to LOGGER.call_once;
\* every call creates its output directory and returns its name (a call
\* ends without returning only after an operation on the file system or
\* the logger has failed); later calls never configure the logger again,
\* so the log file stays in the output directory of the first call.
C39_Theorem == [](C39_Once) /\ [][C39_NeverAgain]_vars

\* Every call returned, two of them with output directories of their own
\* named after the mode the .env file sets, and the one log file is in the
\* directory of the call that came first, which is not the call made first.
C39_Witness ==
    /\ env.at = "Running" /\ Len(env.calls) >= 2
    /\ \A c \in 1..Len(env.calls) : env.calls[c].at = "done"
    /\ env.calls[1].returned # env.calls[2].returned
    /\ Len(env.calls[1].returned) = 4 /\ env.calls[1].returned[3] = "single"
    /\ env.arrived[1] = 2
    /\ env.files = {<<env.calls[2].returned, "log.txt">>}
    /\ Len(env.configs) = 1 /\ env.configs[1].level = "Debug"
    /\ {env.calls[1].returned, env.calls[2].returned} \subseteq env.dirs

====
